---- MODULE Spec2Model ----
(***************************************************************************)
(* A model of the tree-walking interpreter of src/lib: the entry point     *)
(* interpret(input, output) of interpreter.cpp and the evaluator           *)
(* Interpreter::evaluate / Interpreter::execute of interpreter.h.          *)
(*                                                                         *)
(* evaluate and execute are recursive C++ functions that leave either by   *)
(* returning a Value or by throwing (std::runtime_error, another           *)
(* std::exception, ReturnValue, BreakSignal, ContinueSignal).  They are    *)
(* modelled by the recursive operators of the same names, which take the   *)
(* interpreter state and give it back together with the way the function   *)
(* was left (field sig) and the value returned or carried (field val).     *)
(* The actions are the steps of interpret(): tokenize, parse, one          *)
(* iteration of the statement loop of Interpreter::interpret, and the      *)
(* catch clauses.                                                          *)
(*                                                                         *)
(* Numbers are the doubles with an integral value.  Strings are sequences  *)
(* of one-character strings.  A list value is a reference into heap, the   *)
(* store of the std::shared_ptr<std::vector<Value>> objects.               *)
(***************************************************************************)
EXTENDS Integers, Sequences, FiniteSets, TLC

VARIABLES
    pc,         \* position inside interpret(): "lex", "parse", "run", "thrown", "done"
    source,     \* the input: its text, or what tokenize and parse do with it and
                \* the AST it parses to
    tokens,     \* the tokens tokenize returned
    program,    \* program->statements, the AST parse returned
    ip,         \* index of the next statement of program->statements
    globals,    \* Interpreter::globals, name -> Value
    heap,       \* the vectors the list values point to
    output,     \* the output stream: the sequence of items written so far
    trace,      \* history: what the evaluator did, in order
    thrown,     \* the exception in flight out of tokenize / parse / interpret
    result      \* what interpret() returned: "none", "true", "false", "escaped"

vars == <<pc, source, tokens, program, ip, globals, heap, output, trace, thrown, result>>

---------------------------------------------------------------------------
(* Bounds of the model. *)

\* iterations one execution of a while statement may make
MaxIter == 4
\* nesting of calls of user-defined functions
MaxDepth == 4

---------------------------------------------------------------------------
(* AST nodes (parser.h). *)

NoNode == [kind |-> "null"]

NumberLiteral(v) == [kind |-> "NumberLiteral", value |-> v]
\* a numeric literal whose value num/den is not integral, such as 1.5
FractionLiteral(num, den) == [kind |-> "NumberLiteral", fraction |-> <<num, den>>]
StringLiteral(v) == [kind |-> "StringLiteral", value |-> v]
NilLiteral == [kind |-> "NilLiteral"]
ListLiteral(elems) == [kind |-> "ListLiteral", elements |-> elems]
Identifier(n) == [kind |-> "Identifier", name |-> n]
BinaryOp(o, l, r) == [kind |-> "BinaryOp", op |-> o, left |-> l, right |-> r]
UnaryOp(o, e) == [kind |-> "UnaryOp", op |-> o, operand |-> e]
FunctionCall(c, args) == [kind |-> "FunctionCall", callee |-> c, arguments |-> args]
Block(stmts) == [kind |-> "Block", statements |-> stmts]
FunctionDefinition(params, stmts) ==
    [kind |-> "FunctionDefinition", parameters |-> params, body |-> Block(stmts)]
Assignment(n, v, o) == [kind |-> "Assignment", name |-> n, value |-> v, op |-> o]
IndexAccess(t, i) == [kind |-> "IndexAccess", target |-> t, index |-> i]
\* the second constructor of IndexAccess: target[start:end:step], is_slice_op
SliceAccess(t, start, end, step) ==
    [kind |-> "IndexAccess", target |-> t, index |-> NoNode, start_slice |-> start,
     end_slice |-> end, step_slice |-> step]
ExpressionStatement(e) == [kind |-> "ExpressionStatement", expression |-> e]
ReturnStatement(v) == [kind |-> "ReturnStatement", value |-> v]
BreakStatement == [kind |-> "BreakStatement"]
ContinueStatement == [kind |-> "ContinueStatement"]
IfStatement(c, thenStmts, elseIfs, els) ==
    [kind |-> "IfStatement", condition |-> c, thenBlock |-> Block(thenStmts),
     elseIfBlocks |-> elseIfs, elseBlock |-> els]
WhileStatement(c, stmts) ==
    [kind |-> "WhileStatement", condition |-> c, body |-> Block(stmts)]
ForStatement(v, it, stmts) ==
    [kind |-> "ForStatement", variableName |-> v, iterable |-> it, body |-> Block(stmts)]

---------------------------------------------------------------------------
(* Runtime values (Interpreter::Value). *)

NumberV(n) == [t |-> "Number", n |-> n]
StringV(s) == [t |-> "String", s |-> s]
ListV(ref) == [t |-> "List", ref |-> ref]
FunctionV(params, body) == [t |-> "Function", parameters |-> params, body |-> body]
NilV == [t |-> "Nil"]

\* A Number is a double.  NumberV(n) is the integral double n; FractionV(num,
\* den) is the double num/den, which is not integral (den > 1 does not divide
\* num).  The arithmetic of the model is defined on integral doubles only.
FractionV(num, den) == [t |-> "Number", fraction |-> <<num, den>>]
\* raw == static_cast<long long>(raw)
IsIntegral(v) == "n" \in DOMAIN v

typeName(v) == v.t

asBool(v, h) ==
    CASE v.t = "Number" -> IsIntegral(v) => v.n # 0
      [] v.t = "String" -> v.s # <<>>
      [] v.t = "List" -> h[v.ref] # <<>>
      [] v.t = "Function" -> TRUE
      [] v.t = "Nil" -> FALSE

Digit == <<"0", "1", "2", "3", "4", "5", "6", "7", "8", "9">>

RECURSIVE Digits(_)
Digits(n) == IF n < 10 THEN <<Digit[n + 1]>>
             ELSE Digits(n \div 10) \o <<Digit[(n % 10) + 1]>>

\* operator<< of a long long
NumberToChars(n) == IF n < 0 THEN <<"-">> \o Digits(-n) ELSE Digits(n)

\* n as d decimal digits, with leading zeros
RECURSIVE Padded(_, _)
Padded(n, d) == IF d = 0 THEN "" ELSE Padded(n \div 10, d - 1) \o Digit[(n % 10) + 1]

\* std::to_string of an integer, as one string
RECURSIVE to_string(_)
to_string(n) == IF n < 0 THEN "-" \o to_string(-n)
                ELSE IF n < 10 THEN Digit[n + 1]
                ELSE to_string(n \div 10) \o Digit[(n % 10) + 1]

\* std::to_string of a double that is not integral: six digits after the
\* point (exact for the fractions the model uses, whose seventh digit is 0).
DoubleToString(v) ==
    LET num == v.fraction[1]
        den == v.fraction[2]
        a == IF num < 0 THEN -num ELSE num
    IN (IF num < 0 THEN "-" ELSE "") \o to_string(a \div den) \o "."
       \o Padded(((a % den) * 1000000) \div den, 6)

EscapeChar(c) ==
    CASE c = "\\" -> <<"\\", "\\">>
      [] c = "\"" -> <<"\\", "\"">>
      [] c = "\n" -> <<"\\", "n">>
      [] c = "\r" -> <<"\\", "r">>
      [] c = "\t" -> <<"\\", "t">>
      [] OTHER -> <<c>>

RECURSIVE EscapeChars(_)
EscapeChars(s) == IF s = <<>> THEN <<>> ELSE EscapeChar(Head(s)) \o EscapeChars(Tail(s))

RECURSIVE toString(_, _), ElementsToString(_, _, _)
toString(v, h) ==
    CASE v.t = "Number" -> NumberToChars(v.n)
      [] v.t = "String" -> <<"\"">> \o EscapeChars(v.s) \o <<"\"">>
      [] v.t = "List" -> <<"[">> \o ElementsToString(h[v.ref], 1, h) \o <<"]">>
      [] v.t = "Function" ->
            <<"[", "f", "u", "n", "c", "t", "i", "o", "n", "]">>
      [] v.t = "Nil" -> <<"n", "i", "l">>
ElementsToString(elems, i, h) ==
    IF i > Len(elems) THEN <<>>
    ELSE toString(elems[i], h)
         \o (IF i < Len(elems) THEN <<",", " ">> ELSE <<>>)
         \o ElementsToString(elems, i + 1, h)

---------------------------------------------------------------------------
(* The evaluator state threaded through evaluate and execute.              *)
(*   globals, heap, output : the interpreter's data                        *)
(*   sig   : how the C++ function was left: "ok" (it returned), or the     *)
(*           type of the exception it threw                                *)
(*   val   : the Value returned, or carried by a ReturnValue               *)
(*   what  : e.what() of a thrown std::exception                           *)
(*   trace, cur, depth, loops : history.  cur is the running call          *)
(*           instance (0: top level), depth the nesting of calls, loops    *)
(*           the loops of instance cur being executed, innermost last.     *)
(***************************************************************************)

Ok(s, v) == [s EXCEPT !.sig = "ok", !.val = v, !.what = ""]
Throw(s, type, msg) == [s EXCEPT !.sig = type, !.val = NilV, !.what = msg]
Log(s, e) == [s EXCEPT !.trace = Append(@, e)]

\* globals[k] = v
Put(g, k, v) == [n \in DOMAIN g \cup {k} |-> IF n = k THEN v ELSE g[n]]

\* output << chars
Write(s, chars) == [s EXCEPT !.output = Append(@, [k |-> "text", chars |-> chars])]

\* Value{std::make_shared<std::vector<Value>>(elems)}
NewList(s, elems) ==
    [s EXCEPT !.heap = Append(@, elems), !.sig = "ok", !.what = "",
              !.val = ListV(Len(s.heap) + 1)]

\* The names the call dispatch and the Identifier branch compare against.
BuiltinNames ==
    {"print", "range", "len", "push", "pop", "insert", "remove", "sort", "abs",
     "ceil", "floor", "round", "sqrt", "rnd", "parse_num", "to_string", "lower",
     "upper", "split", "join", "replace", "println"}

\* globals.find(name) finds a list
IsBoundList(g, name) == name \in DOMAIN g /\ g[name].t = "List"

\* The order of char on the characters the modelled programs use (ASCII).
Alphabet == <<"0", "1", "2", "3", "4", "5", "6", "7", "8", "9",
              "A", "B", "M", "X", "a", "b", "c", "s", "x", "y", "z">>
Ord(c) == CHOOSE i \in 1..Len(Alphabet) : Alphabet[i] = c

\* std::string operator<
RECURSIVE StringLess(_, _)
StringLess(a, b) ==
    IF b = <<>> THEN FALSE
    ELSE IF a = <<>> THEN TRUE
    ELSE IF Head(a) # Head(b) THEN Ord(Head(a)) < Ord(Head(b))
    ELSE StringLess(Tail(a), Tail(b))

RECURSIVE evaluate(_, _), execute(_, _)

\* Evaluates exprs[i..] left to right; val is acc followed by their values.
RECURSIVE evaluateAll(_, _, _, _)
evaluateAll(exprs, i, s, acc) ==
    IF i > Len(exprs) THEN Ok(s, acc)
    ELSE (LET r == evaluate(exprs[i], s) IN
            IF r.sig # "ok" THEN r
            ELSE evaluateAll(exprs, i + 1, r, Append(acc, r.val)))

---------------------------------------------------------------------------
(* Built-in functions (the FunctionCall branch of evaluate, by name). *)

\* What print and println write for one value.
Printed(v, h) ==
    CASE v.t = "Number" -> NumberToChars(v.n)
      [] v.t = "String" -> v.s
      [] v.t = "Nil" -> <<"n", "i", "l">>
      [] OTHER -> toString(v, h)

RECURSIVE printArguments(_, _, _)
printArguments(args, i, s) ==
    IF i > Len(args) THEN Ok(s, NilV)
    ELSE (LET r == evaluate(args[i], s) IN
            IF r.sig # "ok" THEN r
            ELSE printArguments(args, i + 1, Write(r, Printed(r.val, r.heap))))

builtinPrint(call, s) == printArguments(call.arguments, 1, s)

builtinPrintln(call, s) ==
    (LET r == printArguments(call.arguments, 1, s) IN
       IF r.sig # "ok" THEN r ELSE Ok(Write(r, <<"\n">>), NilV))

builtinLen(call, s) ==
    IF Len(call.arguments) # 1
    THEN Throw(s, "runtime_error", "len() expects exactly 1 argument")
    ELSE (LET r == evaluate(call.arguments[1], s) IN
            IF r.sig # "ok" THEN r
            ELSE IF r.val.t = "String" THEN Ok(r, NumberV(Len(r.val.s)))
            ELSE IF r.val.t = "List" THEN Ok(r, NumberV(Len(r.heap[r.val.ref])))
            ELSE Throw(r, "runtime_error", "len() argument must be a string or list"))

\* What each of the five built-ins says it only supports.
ListArgumentUse(fn) ==
    CASE fn = "push" -> "pushing to lists"
      [] fn = "pop" -> "popping from lists"
      [] fn = "insert" -> "inserting into lists"
      [] fn = "remove" -> "removing from lists"
      [] fn = "sort" -> "sorting lists"

\* A built-in that takes the list its first argument evaluates to.
ListArgumentEvaluated(call, s, fn) ==
    (LET r == evaluate(call.arguments[1], s) IN
       IF r.sig # "ok" THEN r
       ELSE IF r.val.t # "List"
       THEN Throw(r, "runtime_error", "Variable '' is not a list or not found for "
                      \o fn \o "().")
       ELSE Ok(r, r.val))

\* The list an identifier argument names, or the error the built-in throws:
\* the dynamic_cast<Identifier*> of the first argument, then globals.find.
ListArgument(call, s, fn) ==
    LET a == call.arguments[1]
    IN IF a.kind # "Identifier"
       THEN Throw(s, "runtime_error", fn \o "() currently only supports "
                      \o ListArgumentUse(fn) \o " stored in variables.")
       ELSE IF ~IsBoundList(s.globals, a.name)
       THEN Throw(s, "runtime_error", "Variable '" \o a.name
                      \o "' is not a list or not found for " \o fn \o "().")
       ELSE Ok(s, s.globals[a.name])

builtinPush(call, s) ==
    IF Len(call.arguments) # 2
    THEN Throw(s, "runtime_error", "push() expects 2 arguments: list and value")
    ELSE (LET item == evaluate(call.arguments[2], s) IN
            IF item.sig # "ok" THEN item
            ELSE (LET l == ListArgument(call, item, "push") IN
                    IF l.sig # "ok" THEN l
                    ELSE Ok([l EXCEPT !.heap[l.val.ref] = Append(@, item.val)], NilV)))

builtinPop(call, s) ==
    IF Len(call.arguments) # 1
    THEN Throw(s, "runtime_error", "pop() expects 1 argument: list")
    ELSE (LET l == ListArgument(call, s, "pop") IN
            IF l.sig # "ok" THEN l
            ELSE LET vec == l.heap[l.val.ref]
                 IN IF vec = <<>>
                    THEN Throw(l, "runtime_error", "Cannot pop from an empty list.")
                    ELSE Ok([l EXCEPT !.heap[l.val.ref] = SubSeq(vec, 1, Len(vec) - 1)],
                            vec[Len(vec)]))

\* An insert that drops the fraction of its index.
builtinInsertTruncating(call, s) ==
    IF Len(call.arguments) # 3
    THEN Throw(s, "runtime_error", "insert() expects 3 arguments: list, index, value")
    ELSE (LET index == evaluate(call.arguments[2], s) IN
            IF index.sig # "ok" THEN index
            ELSE (LET item == evaluate(call.arguments[3], index) IN
                    IF item.sig # "ok" THEN item
                    ELSE (LET l == ListArgument(call, item, "insert") IN
                            IF l.sig # "ok" THEN l
                            ELSE IF index.val.t # "Number"
                            THEN Throw(l, "runtime_error", "index must be a number")
                            ELSE LET idx == IF IsIntegral(index.val) THEN index.val.n
                                            ELSE index.val.fraction[1] \div index.val.fraction[2]
                                     vec == l.heap[l.val.ref]
                                 IN IF idx < 0 \/ idx > Len(vec)
                                    THEN Throw(l, "runtime_error", "Index out of bounds")
                                    ELSE Ok([l EXCEPT !.heap[l.val.ref] =
                                                SubSeq(vec, 1, idx) \o <<item.val>>
                                                \o SubSeq(vec, idx + 1, Len(vec))], NilV))))

builtinInsert(call, s) ==
    IF Len(call.arguments) # 3
    THEN Throw(s, "runtime_error", "insert() expects 3 arguments: list, index, value")
    ELSE (LET index == evaluate(call.arguments[2], s) IN
            IF index.sig # "ok" THEN index
            ELSE (LET item == evaluate(call.arguments[3], index) IN
                    IF item.sig # "ok" THEN item
                    ELSE (LET l == ListArgument(call, item, "insert") IN
                            IF l.sig # "ok" THEN l
                            ELSE IF index.val.t # "Number"
                            THEN Throw(l, "runtime_error",
                                       "Second argument (index) to insert() must be a number. Got "
                                       \o typeName(index.val))
                            ELSE IF ~IsIntegral(index.val)
                            THEN Throw(l, "runtime_error",
                                       "List index for insert() must be an integer. Got "
                                       \o DoubleToString(index.val))
                            ELSE LET idx == index.val.n
                                     vec == l.heap[l.val.ref]
                                 IN IF idx < 0 \/ idx > Len(vec)
                                    THEN Throw(l, "runtime_error",
                                               "Index out of bounds for insert(): "
                                               \o to_string(idx) \o ", size: "
                                               \o to_string(Len(vec)))
                                    ELSE Ok([l EXCEPT !.heap[l.val.ref] =
                                                SubSeq(vec, 1, idx) \o <<item.val>>
                                                \o SubSeq(vec, idx + 1, Len(vec))], NilV))))

builtinRemove(call, s) ==
    IF Len(call.arguments) # 2
    THEN Throw(s, "runtime_error", "remove() expects 2 arguments: list, index")
    ELSE (LET index == evaluate(call.arguments[2], s) IN
            IF index.sig # "ok" THEN index
            ELSE (LET l == ListArgument(call, index, "remove") IN
                    IF l.sig # "ok" THEN l
                    ELSE IF index.val.t # "Number"
                    THEN Throw(l, "runtime_error",
                               "Second argument (index) to remove() must be a number. Got "
                               \o typeName(index.val))
                    ELSE IF ~IsIntegral(index.val)
                    THEN Throw(l, "runtime_error",
                               "List index for remove() must be an integer. Got "
                               \o DoubleToString(index.val))
                    ELSE LET idx == index.val.n
                             vec == l.heap[l.val.ref]
                         IN IF idx < 0 \/ idx >= Len(vec)
                            THEN Throw(l, "runtime_error",
                                       "Index out of bounds for remove(): "
                                       \o to_string(idx) \o ", size: "
                                       \o to_string(Len(vec)))
                            ELSE Ok([l EXCEPT !.heap[l.val.ref] =
                                        SubSeq(vec, 1, idx) \o SubSeq(vec, idx + 2, Len(vec))],
                                    vec[idx + 1])))

\* The comparator of sort: a < b for two values of the type of the first element.
SortLess(a, b) == IF a.t = "Number" THEN a.n < b.n ELSE StringLess(a.s, b.s)

\* vec in ascending order of SortLess: what std::sort leaves.
RECURSIVE SortInsert(_, _), Sorted(_)
SortInsert(v, sorted) ==
    IF sorted = <<>> THEN <<v>>
    ELSE IF SortLess(v, Head(sorted)) THEN <<v>> \o sorted
    ELSE <<Head(sorted)>> \o SortInsert(v, Tail(sorted))
Sorted(vec) == IF vec = <<>> THEN <<>> ELSE SortInsert(Head(vec), Sorted(Tail(vec)))

\* A sort that leaves the list as it is and returns a sorted copy.
builtinSortOfCopy(call, s) ==
    IF Len(call.arguments) # 1
    THEN Throw(s, "runtime_error", "sort() expects 1 argument: list")
    ELSE (LET l == ListArgument(call, s, "sort") IN
            IF l.sig # "ok" THEN l
            ELSE LET vec == l.heap[l.val.ref]
                 IN IF vec = <<>> THEN Ok(l, NilV)
                    ELSE IF \E i \in 1..Len(vec) : vec[i].t # vec[1].t
                            \/ vec[1].t \notin {"Number", "String"}
                    THEN Throw(l, "runtime_error", "Cannot sort list")
                    ELSE NewList(l, Sorted(vec)))

builtinSort(call, s) ==
    IF Len(call.arguments) # 1
    THEN Throw(s, "runtime_error", "sort() expects 1 argument: list")
    ELSE (LET l == ListArgument(call, s, "sort") IN
            IF l.sig # "ok" THEN l
            ELSE LET vec == l.heap[l.val.ref]
                 IN IF vec = <<>> THEN Ok(l, NilV)
                    ELSE IF vec[1].t \notin {"Number", "String"}
                    THEN Throw(l, "runtime_error",
                               "sort() can only sort lists of numbers or lists of strings. "
                               \o "First element type: " \o typeName(vec[1]))
                    ELSE IF \E i \in 1..Len(vec) : vec[i].t # vec[1].t
                    THEN Throw(l, "runtime_error",
                               "Cannot sort list with mixed types (expected "
                               \o (IF vec[1].t = "Number" THEN "numbers" ELSE "strings")
                               \o ").")
                    ELSE Ok([l EXCEPT !.heap[l.val.ref] = Sorted(vec)], NilV))

\* A range that includes stop.
RECURSIVE RangeValuesThroughStop(_, _, _)
RangeValuesThroughStop(start, stop, step) ==
    IF (step > 0 /\ start <= stop) \/ (step < 0 /\ start >= stop)
    THEN <<NumberV(start)>> \o RangeValuesThroughStop(start + step, stop, step)
    ELSE <<>>

\* for (double i = start; i < stop; i += step) push_back(i), and its mirror
RECURSIVE RangeValues(_, _, _)
RangeValues(start, stop, step) ==
    IF (step > 0 /\ start < stop) \/ (step < 0 /\ start > stop)
    THEN <<NumberV(start)>> \o RangeValues(start + step, stop, step)
    ELSE <<>>

builtinRange(call, s) ==
    IF Len(call.arguments) \notin {1, 2, 3}
    THEN Throw(s, "runtime_error", "range() expects 1, 2, or 3 arguments")
    ELSE (LET r == evaluateAll(call.arguments, 1, s, <<>>) IN
            IF r.sig # "ok" THEN r
            ELSE IF \E i \in 1..Len(r.val) : r.val[i].t # "Number"
            THEN Throw(r, "runtime_error",
                       CASE Len(r.val) = 1 -> "range() single argument (stop) must be a number"
                         [] Len(r.val) = 2 -> "range() arguments (start, stop) must be numbers"
                         [] Len(r.val) = 3 ->
                              "range() arguments (start, stop, step) must be numbers")
            ELSE LET n == Len(r.val)
                     start == IF n = 1 THEN 0 ELSE r.val[1].n
                     stop == IF n = 1 THEN r.val[1].n ELSE r.val[2].n
                     step == IF n = 3 THEN r.val[3].n ELSE 1
                 IN IF step = 0
                    THEN Throw(r, "runtime_error", "range() step argument cannot be zero")
                    ELSE NewList(r, RangeValues(start, stop, step)))

\* num < 0 for a double
IsNegative(v) == IF IsIntegral(v) THEN v.n < 0 ELSE v.fraction[1] < 0

\* funcName == "sqrt".  A root that is not integral is outside the numbers of
\* the model (no arm of the CASE).
builtinSqrt(call, s) ==
    IF Len(call.arguments) # 1
    THEN Throw(s, "runtime_error", "sqrt() expects 1 argument")
    ELSE (LET arg == evaluate(call.arguments[1], s) IN
            IF arg.sig # "ok" THEN arg
            ELSE IF arg.val.t # "Number"
            THEN Throw(arg, "runtime_error", "sqrt() argument must be a number")
            ELSE IF IsNegative(arg.val)
            THEN Throw(arg, "runtime_error", "sqrt() argument cannot be negative")
            ELSE (CASE IsIntegral(arg.val) /\ \E q \in 0..arg.val.n : q * q = arg.val.n ->
                         Ok(arg, NumberV(CHOOSE q \in 0..arg.val.n : q * q = arg.val.n))))

---------------------------------------------------------------------------
(* Operators (the BinaryOp and Assignment branches of evaluate). *)

Abs(n) == IF n < 0 THEN -n ELSE n
\* std::fmod on integral doubles: the sign of the dividend
Fmod(a, b) == IF a < 0 THEN -(Abs(a) % Abs(b)) ELSE a % Abs(b)
\* a / b where the quotient is integral
Quotient(a, b) == IF (a < 0) # (b < 0) THEN -(Abs(a) \div Abs(b)) ELSE Abs(a) \div Abs(b)
RECURSIVE Pow(_, _)
Pow(b, e) == IF e = 0 THEN 1 ELSE b * Pow(b, e - 1)

\* for (int i = 0; i < n; ++i) result += seq
RECURSIVE Repeat(_, _)
Repeat(seq, n) == IF n <= 0 THEN <<>> ELSE seq \o Repeat(seq, n - 1)

\* main_str.substr(main_str.length() - suffix_str.length()) == suffix_str
StripSuffix(main, suffix) ==
    IF Len(main) >= Len(suffix)
       /\ SubSeq(main, Len(main) - Len(suffix) + 1, Len(main)) = suffix
    THEN SubSeq(main, 1, Len(main) - Len(suffix))
    ELSE main

Bool(b) == NumberV(IF b THEN 1 ELSE 0)

CannotApply(s, op, l, r) ==
    Throw(s, "runtime_error",
          "Operator '" \o op \o "' cannot be applied to types " \o typeName(l)
          \o " and " \o typeName(r))

NilOperand(s, op) ==
    Throw(s, "runtime_error", "Operator '" \o op \o "' cannot be applied if an operand is Nil")

\* A `+` that writes a Number next to a String instead of rejecting the pair.
binaryPlusLenient(l, r, s) ==
    IF l.t = "Nil" \/ r.t = "Nil" THEN NilOperand(s, "+")
    ELSE IF l.t = "Number" /\ r.t = "Number" THEN Ok(s, NumberV(l.n + r.n))
    ELSE IF l.t = "String" /\ r.t = "String" THEN Ok(s, StringV(l.s \o r.s))
    ELSE IF l.t = "Number" /\ r.t = "String" THEN Ok(s, StringV(NumberToChars(l.n) \o r.s))
    ELSE IF l.t = "List" /\ r.t = "List" THEN NewList(s, s.heap[l.ref] \o s.heap[r.ref])
    ELSE CannotApply(s, "+", l, r)

\* A + that appends the right list to the left one.
binaryPlusInPlace(l, r, s) ==
    IF l.t = "Nil" \/ r.t = "Nil" THEN NilOperand(s, "+")
    ELSE IF l.t = "Number" /\ r.t = "Number" THEN Ok(s, NumberV(l.n + r.n))
    ELSE IF l.t = "String" /\ r.t = "String" THEN Ok(s, StringV(l.s \o r.s))
    ELSE IF l.t = "List" /\ r.t = "List"
    THEN Ok([s EXCEPT !.heap[l.ref] = @ \o s.heap[r.ref]], l)
    ELSE CannotApply(s, "+", l, r)

\* binOp->op == "+"
binaryPlus(l, r, s) ==
    IF l.t = "Nil" \/ r.t = "Nil" THEN NilOperand(s, "+")
    ELSE IF l.t = "Number" /\ r.t = "Number" THEN Ok(s, NumberV(l.n + r.n))
    ELSE IF l.t = "String" /\ r.t = "String" THEN Ok(s, StringV(l.s \o r.s))
    ELSE IF l.t = "List" /\ r.t = "List" THEN NewList(s, s.heap[l.ref] \o s.heap[r.ref])
    ELSE CannotApply(s, "+", l, r)

\* binOp->op == "-"
binaryMinus(l, r, s) ==
    IF l.t = "Nil" \/ r.t = "Nil" THEN NilOperand(s, "-")
    ELSE IF l.t = "Number" /\ r.t = "Number" THEN Ok(s, NumberV(l.n - r.n))
    ELSE IF l.t = "String" /\ r.t = "String" THEN Ok(s, StringV(StripSuffix(l.s, r.s)))
    ELSE CannotApply(s, "-", l, r)

\* A division and a modulo that yield nil for a zero divisor instead of
\* throwing.
binaryDivModPowUnchecked(op, l, r, s) ==
    IF l.t = "Nil" \/ r.t = "Nil" THEN NilOperand(s, op)
    ELSE IF l.t = "Number" /\ r.t = "Number"
    THEN IF op \in {"/", "%"} /\ r.n = 0 THEN Ok(s, NilV)
         ELSE CASE op = "/" /\ Fmod(l.n, r.n) = 0 -> Ok(s, NumberV(Quotient(l.n, r.n)))
                [] op = "%" -> Ok(s, NumberV(Fmod(l.n, r.n)))
                [] op = "^" /\ r.n >= 0 -> Ok(s, NumberV(Pow(l.n, r.n)))
    ELSE CannotApply(s, op, l, r)

\* binOp->op == "/" || "%" || "^".  A quotient or power that is not integral
\* is outside the numbers of the model (no arm of the CASE).
binaryDivModPow(op, l, r, s) ==
    IF l.t = "Nil" \/ r.t = "Nil" THEN NilOperand(s, op)
    ELSE IF l.t = "Number" /\ r.t = "Number"
    THEN IF op \in {"/", "%"} /\ r.n = 0
         THEN Throw(s, "runtime_error",
                    IF op = "/" THEN "Division by zero" ELSE "Modulo by zero")
         ELSE CASE op = "/" /\ Fmod(l.n, r.n) = 0 -> Ok(s, NumberV(Quotient(l.n, r.n)))
                [] op = "%" -> Ok(s, NumberV(Fmod(l.n, r.n)))
                [] op = "^" /\ r.n >= 0 -> Ok(s, NumberV(Pow(l.n, r.n)))
    ELSE CannotApply(s, op, l, r)

\* binOp->op == "*"
binaryTimes(l, r, s) ==
    IF l.t = "Number" /\ r.t = "Number" THEN Ok(s, NumberV(l.n * r.n))
    ELSE IF (l.t = "String" /\ r.t = "Number") \/ (l.t = "Number" /\ r.t = "String")
    THEN LET str == IF l.t = "String" THEN l.s ELSE r.s
             num == IF l.t = "String" THEN r.n ELSE l.n
         IN IF num < 0
            THEN Throw(s, "runtime_error", "Cannot multiply string by negative number")
            ELSE Ok(s, StringV(Repeat(str, num)))
    ELSE IF (l.t = "List" /\ r.t = "Number") \/ (l.t = "Number" /\ r.t = "List")
    THEN LET list == IF l.t = "List" THEN s.heap[l.ref] ELSE s.heap[r.ref]
             num == IF l.t = "List" THEN r.n ELSE l.n
         IN IF num < 0
            THEN Throw(s, "runtime_error", "Cannot multiply list by negative number")
            ELSE NewList(s, Repeat(list, num))
    ELSE CannotApply(s, "*", l, r)

\* binOp->op == "==" || "!="
binaryEquality(op, l, r, s) ==
    IF l.t = "Nil" /\ r.t = "Nil" THEN Ok(s, Bool(op = "=="))
    ELSE IF l.t = "Nil" \/ r.t = "Nil" THEN Ok(s, Bool(op = "!="))
    ELSE IF l.t = "Number" /\ r.t = "Number" THEN Ok(s, Bool((op = "==") = (l.n = r.n)))
    ELSE IF l.t = "String" /\ r.t = "String" THEN Ok(s, Bool((op = "==") = (l.s = r.s)))
    ELSE Throw(s, "runtime_error",
               "Operator '" \o op \o "' cannot compare types " \o typeName(l)
               \o " and " \o typeName(r))

\* binOp->op == "<" || ">" || "<=" || ">="
binaryOrder(op, l, r, s) ==
    IF l.t = "Nil" \/ r.t = "Nil" THEN NilOperand(s, op)
    ELSE IF (l.t = "Number" /\ r.t = "Number") \/ (l.t = "String" /\ r.t = "String")
    THEN LET lt == IF l.t = "Number" THEN l.n < r.n ELSE StringLess(l.s, r.s)
             gt == IF l.t = "Number" THEN l.n > r.n ELSE StringLess(r.s, l.s)
         IN Ok(s, Bool(CASE op = "<" -> lt
                         [] op = ">" -> gt
                         [] op = "<=" -> ~gt
                         [] op = ">=" -> ~lt))
    ELSE CannotApply(s, op, l, r)

\* The operator applied to the two evaluated operands.
applyBinaryOp(op, l, r, s) ==
    CASE op = "+" -> binaryPlus(l, r, s)
      [] op = "-" -> binaryMinus(l, r, s)
      [] op \in {"/", "%", "^"} -> binaryDivModPow(op, l, r, s)
      [] op = "*" -> binaryTimes(l, r, s)
      [] op \in {"==", "!="} -> binaryEquality(op, l, r, s)
      [] op \in {"<", ">", "<=", ">="} -> binaryOrder(op, l, r, s)
      [] op = "and" -> Ok(s, Bool(asBool(l, s.heap) /\ asBool(r, s.heap)))
      [] op = "or" -> Ok(s, Bool(asBool(l, s.heap) \/ asBool(r, s.heap)))
      [] OTHER -> Throw(s, "runtime_error", "Unknown operator '" \o op \o "'")

\* A BinaryOp whose and and or leave the right operand alone when the left
\* one decides.
evaluateBinaryOpShortCircuit(binOp, s) ==
    (LET left == evaluate(binOp.left, s) IN
       IF left.sig # "ok" THEN left
       ELSE IF binOp.op = "and" /\ ~asBool(left.val, left.heap) THEN Ok(left, Bool(FALSE))
       ELSE IF binOp.op = "or" /\ asBool(left.val, left.heap) THEN Ok(left, Bool(TRUE))
       ELSE (LET right == evaluate(binOp.right, left) IN
               IF right.sig # "ok" THEN right
               ELSE applyBinaryOp(binOp.op, left.val, right.val, right)))

evaluateBinaryOp(binOp, s) ==
    (LET left == evaluate(binOp.left, s) IN
       IF left.sig # "ok" THEN left
       ELSE (LET right == evaluate(binOp.right, left) IN
               IF right.sig # "ok" THEN right
               ELSE applyBinaryOp(binOp.op, left.val, right.val, right)))

evaluateUnaryOp(unaryOp, s) ==
    (LET operand == evaluate(unaryOp.operand, s) IN
       IF operand.sig # "ok" THEN operand
       ELSE IF unaryOp.op = "not"
       THEN Ok(operand, Bool(~asBool(operand.val, operand.heap)))
       ELSE IF unaryOp.op = "-"
       THEN IF operand.val.t # "Number"
            THEN Throw(operand, "runtime_error", "Operand for unary '-' must be a number.")
            ELSE IF IsIntegral(operand.val) THEN Ok(operand, NumberV(-operand.val.n))
            ELSE Ok(operand, FractionV(-operand.val.fraction[1], operand.val.fraction[2]))
       ELSE Throw(operand, "runtime_error", "Unknown unary operator: " \o unaryOp.op))

RequiresNumeric(s, op) ==
    Throw(s, "runtime_error", "Operator '" \o op \o "' requires numeric operands")

\* The value a compound assignment computes from the current value c of the
\* variable and the right-hand side v; op is "+=", "-=", ...
compoundValue(op, c, v, s) ==
    LET bothNumbers == c.t = "Number" /\ v.t = "Number"
    IN CASE op = "+=" ->
              IF bothNumbers THEN Ok(s, NumberV(c.n + v.n))
              ELSE IF c.t = "String" /\ v.t = "String" THEN Ok(s, StringV(c.s \o v.s))
              ELSE IF c.t = "List" /\ v.t = "List"
              THEN NewList(s, s.heap[c.ref] \o s.heap[v.ref])
              ELSE CannotApply(s, op, c, v)
         [] op = "-=" ->
              IF bothNumbers THEN Ok(s, NumberV(c.n - v.n))
              ELSE IF c.t = "String" /\ v.t = "String"
              THEN Ok(s, StringV(StripSuffix(c.s, v.s)))
              ELSE CannotApply(s, "-", c, v)
         [] op = "*=" ->
              IF bothNumbers THEN Ok(s, NumberV(c.n * v.n))
              ELSE IF c.t = "String" /\ v.t = "Number"
              THEN IF v.n < 0
                   THEN Throw(s, "runtime_error",
                              "Cannot multiply string by negative number for '*='")
                   ELSE Ok(s, StringV(Repeat(c.s, v.n)))
              ELSE IF c.t = "Number" /\ v.t = "String"
              THEN Throw(s, "runtime_error",
                         "Operator '*=' with number on left and string on right is not supported.")
              ELSE IF c.t = "List" /\ v.t = "Number"
              THEN IF v.n < 0
                   THEN Throw(s, "runtime_error",
                              "Cannot multiply list by negative number for '*='")
                   ELSE NewList(s, Repeat(s.heap[c.ref], v.n))
              ELSE CannotApply(s, op, c, v)
         [] op = "/=" ->
              IF ~bothNumbers THEN RequiresNumeric(s, op)
              ELSE IF v.n = 0 THEN Throw(s, "runtime_error", "Division by zero for '/='")
              ELSE (CASE Fmod(c.n, v.n) = 0 -> Ok(s, NumberV(Quotient(c.n, v.n))))
         [] op = "%=" ->
              IF ~bothNumbers THEN RequiresNumeric(s, op)
              ELSE IF v.n = 0 THEN Throw(s, "runtime_error", "Modulo by zero for '%='")
              ELSE Ok(s, NumberV(Fmod(c.n, v.n)))
         [] op = "^=" ->
              IF ~bothNumbers THEN RequiresNumeric(s, op)
              ELSE (CASE v.n >= 0 -> Ok(s, NumberV(Pow(c.n, v.n))))
         [] OTHER ->
              Throw(s, "runtime_error", "Unsupported compound assignment operator: " \o op)

\* An assignment that binds the name to a copy of a list value.
evaluateAssignmentCopying(assign, s) ==
    (LET val_to_assign == evaluate(assign.value, s) IN
      IF val_to_assign.sig # "ok" THEN val_to_assign
      ELSE IF val_to_assign.val.t # "List"
      THEN Ok([val_to_assign EXCEPT !.globals = Put(@, assign.name, val_to_assign.val)],
              val_to_assign.val)
      ELSE (LET copy == NewList(val_to_assign, val_to_assign.heap[val_to_assign.val.ref]) IN
             Ok([copy EXCEPT !.globals = Put(@, assign.name, copy.val)], copy.val)))

evaluateAssignment(assign, s) ==
    (LET val_to_assign == evaluate(assign.value, s) IN
       IF val_to_assign.sig # "ok" THEN val_to_assign
       ELSE IF assign.op = "="
       THEN Ok([val_to_assign EXCEPT !.globals = Put(@, assign.name, val_to_assign.val)],
               val_to_assign.val)
       ELSE IF assign.name \notin DOMAIN val_to_assign.globals
       THEN Throw(val_to_assign, "runtime_error",
                  "Undefined variable for compound assignment: " \o assign.name)
       ELSE (LET result_val == compoundValue(assign.op, val_to_assign.globals[assign.name],
                                            val_to_assign.val, val_to_assign) IN
               IF result_val.sig # "ok" THEN result_val
               ELSE Ok([result_val EXCEPT !.globals = Put(@, assign.name, result_val.val)],
                       result_val.val)))

evaluateIdentifier(id, s) ==
    IF id.name \in BuiltinNames
    THEN Throw(s, "runtime_error",
               "Built-in function '" \o id.name \o "' must be called with parentheses ()")
    ELSE IF id.name \notin DOMAIN s.globals
    THEN Throw(s, "runtime_error", "Undefined variable: " \o id.name)
    ELSE Ok(s, s.globals[id.name])

\* static_cast<long long>(double): the fraction is dropped
Truncate(v) == IF IsIntegral(v) THEN v.n ELSE Quotient(v.fraction[1], v.fraction[2])

\* "... index out of bounds: " + std::to_string(int_index - (int_index >= len ? len : 0))
\* + ", size: " + std::to_string(len)
IndexOutOfBounds(s, type, int_index, len) ==
    Throw(s, "runtime_error",
          type \o " index out of bounds: "
          \o to_string(int_index - (IF int_index >= len THEN len ELSE 0))
          \o ", size: " \o to_string(len))

\* An index that is reduced modulo the length, however far out it is.
evaluateIndexWrapping(indexAccess, target) ==
    (LET index_val == evaluate(indexAccess.index, target) IN
       IF index_val.sig # "ok" THEN index_val
       ELSE IF index_val.val.t # "Number" \/ ~IsIntegral(index_val.val)
       THEN Throw(index_val, "runtime_error", "Index must be an integer.")
       ELSE IF target.val.t \notin {"String", "List"}
       THEN Throw(index_val, "runtime_error", "Cannot apply index operator")
       ELSE LET seq == IF target.val.t = "String" THEN target.val.s
                       ELSE index_val.heap[target.val.ref]
            IN IF seq = <<>> THEN IndexOutOfBounds(index_val, target.val.t, 0, 0)
               ELSE IF target.val.t = "String"
               THEN Ok(index_val, StringV(<<seq[(index_val.val.n % Len(seq)) + 1]>>))
               ELSE Ok(index_val, seq[(index_val.val.n % Len(seq)) + 1]))

\* target[index], index present
evaluateIndex(indexAccess, target) ==
    (LET index_val == evaluate(indexAccess.index, target) IN
       IF index_val.sig # "ok" THEN index_val
       ELSE IF index_val.val.t # "Number"
       THEN Throw(index_val, "runtime_error",
                  "Index must be a number. Got " \o typeName(index_val.val))
       ELSE IF ~IsIntegral(index_val.val)
       THEN Throw(index_val, "runtime_error",
                  "Index must be an integer. Got " \o DoubleToString(index_val.val))
       ELSE IF target.val.t \notin {"String", "List"}
       THEN Throw(index_val, "runtime_error",
                  "Cannot apply index operator to type " \o typeName(target.val))
       ELSE LET seq == IF target.val.t = "String" THEN target.val.s
                       ELSE index_val.heap[target.val.ref]
                len == Len(seq)
                raw == index_val.val.n
                int_index == IF raw < 0 THEN raw + len ELSE raw
            IN IF int_index < 0 \/ int_index >= len
               THEN IndexOutOfBounds(index_val, target.val.t, int_index, len)
               ELSE IF target.val.t = "String"
               THEN Ok(index_val, StringV(<<seq[int_index + 1]>>))
               ELSE Ok(index_val, seq[int_index + 1]))

\* One of start_slice, end_slice, step_slice: val is the bound as a long
\* long, or Nil when the expression is absent.
evaluateSliceBound(node, s, what) ==
    IF node.kind = "null" THEN Ok(s, NilV)
    ELSE (LET r == evaluate(node, s) IN
            IF r.sig # "ok" THEN r
            ELSE IF r.val.t # "Number"
            THEN Throw(r, "runtime_error", "Slice " \o what \o " must be a number.")
            ELSE Ok(r, NumberV(Truncate(r.val))))

\* The positions the two loops of the slice branch read, in order (from 0).
RECURSIVE SliceForward(_, _, _), SliceBackward(_, _, _, _)
SliceForward(i, end, step) ==
    IF i < end THEN <<i>> \o SliceForward(i + step, end, step) ELSE <<>>
SliceBackward(i, end, step, len) ==
    IF i > end
    THEN (IF i < len /\ i >= 0 THEN <<i>> ELSE <<>>) \o SliceBackward(i + step, end, step, len)
    ELSE <<>>

\* result_str += list[i].asString() for the positions read
RECURSIVE SliceString(_, _)
SliceString(list, positions) ==
    IF positions = <<>> THEN <<>>
    ELSE list[Head(positions) + 1].s \o SliceString(list, Tail(positions))

\* The two loops of the slice branch, after the bounds have been evaluated:
\* start and end are 0 when absent, step is 1.
sliceOfList(target, s, start0, end0, step) ==
    IF target.val.t # "List"
    THEN Throw(s, "runtime_error", "Value is not a List, cannot call asList()")
    ELSE LET list == s.heap[target.val.ref]
             len == Len(list)
             Clamp(i) == IF i < 0 THEN IF i + len < 0 THEN 0 ELSE i + len
                         ELSE IF i > len THEN len ELSE i
             start == Clamp(start0)
             end == Clamp(end0)
             positions == IF step > 0 THEN SliceForward(start, end, step)
                          ELSE SliceBackward(start, end, step, len)
         IN IF \E k \in DOMAIN positions : list[positions[k] + 1].t # "String"
            THEN Throw(s, "bad_variant_access", "std::get: wrong index for variant")
            ELSE Ok(s, StringV(SliceString(list, positions)))

\* target[start:end:step]
evaluateSlice(indexAccess, target) ==
    (LET startVal == evaluateSliceBound(indexAccess.start_slice, target, "start index") IN
      IF startVal.sig # "ok" THEN startVal
      ELSE (LET endVal == evaluateSliceBound(indexAccess.end_slice, startVal, "end index") IN
        IF endVal.sig # "ok" THEN endVal
        ELSE (LET stepVal == evaluateSliceBound(indexAccess.step_slice, endVal, "step") IN
          IF stepVal.sig # "ok" THEN stepVal
          ELSE IF stepVal.val.t = "Number" /\ stepVal.val.n = 0
          THEN Throw(stepVal, "runtime_error", "Slice step cannot be zero.")
          ELSE sliceOfList(target, stepVal,
                           IF startVal.val.t = "Number" THEN startVal.val.n ELSE 0,
                           IF endVal.val.t = "Number" THEN endVal.val.n ELSE 0,
                           IF stepVal.val.t = "Number" THEN stepVal.val.n ELSE 1))))

evaluateIndexAccess(indexAccess, s) ==
    (LET target == evaluate(indexAccess.target, s) IN
       IF target.sig # "ok" THEN target
       ELSE IF indexAccess.index.kind # "null" THEN evaluateIndex(indexAccess, target)
       ELSE evaluateSlice(indexAccess, target))

---------------------------------------------------------------------------
(* Calls of user-defined functions (the end of the FunctionCall branch). *)

\* globals[parameters[i]] = evaluated_args[i], for i = 0, 1, ...
RECURSIVE bindParameters(_, _, _, _)
bindParameters(g, parameters, args, i) ==
    IF i > Len(parameters) THEN g
    ELSE bindParameters(Put(g, parameters[i], args[i]), parameters, args, i + 1)

\* History: the call instance id, whose body ended in the state body, is left
\* in the way how, by the state r.
LogExit(r, body, caller, id, how, oldGlobals) ==
    Log([r EXCEPT !.cur = IF how \in {"end", "return"} THEN caller.cur ELSE @,
                  !.depth = caller.depth,
                  !.loops = IF how \in {"end", "return"} THEN caller.loops ELSE @],
        [ev |-> "exit", id |-> id, how |-> how, caller |-> caller.cur,
         snapshot |-> oldGlobals, inner |-> body.globals, after |-> r.globals,
         val |-> r.val, out |-> r.output])

\* execute(body) returned: globals = oldGlobals; return Value{nullptr};
callCompleted(body, oldGlobals) == Ok([body EXCEPT !.globals = oldGlobals], NilV)

\* A catch clause that restores globals and drops the value.
callReturnedNil(body, oldGlobals) == Ok([body EXCEPT !.globals = oldGlobals], NilV)

\* A catch clause that returns the value and leaves globals as the body left it.
callReturnedUnrestored(body, oldGlobals) == Ok(body, body.val)

\* A catch clause that gives the caller's names their values back and leaves
\* the names only the callee bound, its parameters and locals, bound.
callReturnedKeepingLocals(body, oldGlobals) ==
    Ok([body EXCEPT !.globals = [n \in DOMAIN body.globals |->
                                   IF n \in DOMAIN oldGlobals THEN oldGlobals[n]
                                   ELSE body.globals[n]]],
       body.val)

\* catch (const ReturnValue& ret): globals = oldGlobals; return ret.value;
callReturned(body, oldGlobals) == Ok([body EXCEPT !.globals = oldGlobals], body.val)

\* Any other exception leaves the try block and evaluate: no handler runs.
callUnwound(body, oldGlobals) == body

\* History: the call instance id starts, with the parameters bound.
EnterCall(evaluated_args, actualFunc, id, s) ==
    Log([evaluated_args EXCEPT
            !.globals = bindParameters(@, actualFunc.parameters, evaluated_args.val, 1),
            !.cur = id, !.depth = @ + 1, !.loops = <<>>],
        [ev |-> "enter", id |-> id, caller |-> s.cur])

\* try { execute(body) } catch (const ReturnValue&) of the call instance id,
\* whose body was left in the state body.
leaveCall(body, s, id, oldGlobals) ==
    CASE body.sig = "ok" ->
           LogExit(callCompleted(body, oldGlobals), body, s, id, "end", oldGlobals)
      [] body.sig = "ReturnValue" ->
           LogExit(callReturned(body, oldGlobals), body, s, id, "return", oldGlobals)
      [] OTHER -> LogExit(callUnwound(body, oldGlobals), body, s, id, body.sig, oldGlobals)

\* A call that evaluates and binds the arguments before it compares their
\* number with the number of parameters.
callFunctionBindingFirst(call, s) ==
    (LET funcValue == evaluate(call.callee, s) IN
      IF funcValue.sig # "ok" THEN funcValue
      ELSE IF funcValue.val.t # "Function"
      THEN Throw(funcValue, "runtime_error", "Attempted to call a non-function value")
      ELSE (LET evaluated_args == evaluateAll(call.arguments, 1, funcValue, <<>>) IN
             IF evaluated_args.sig # "ok" THEN evaluated_args
             ELSE IF Len(call.arguments) < Len(funcValue.val.parameters)
             THEN Throw(evaluated_args, "runtime_error", "Wrong number of arguments for function.")
             ELSE IF Len(call.arguments) > Len(funcValue.val.parameters)
             THEN Throw([evaluated_args EXCEPT !.globals =
                            bindParameters(@, funcValue.val.parameters, evaluated_args.val, 1)],
                        "runtime_error", "Wrong number of arguments for function.")
             ELSE leaveCall(execute(funcValue.val.body,
                                    EnterCall(evaluated_args, funcValue.val,
                                              Len(evaluated_args.trace) + 1, s)),
                            s, Len(evaluated_args.trace) + 1, funcValue.globals)))

\* A call that saves the globals after it has evaluated the arguments.
callFunctionSavingAfterArguments(call, s) ==
    (LET funcValue == evaluate(call.callee, s) IN
      IF funcValue.sig # "ok" THEN funcValue
      ELSE IF funcValue.val.t # "Function"
      THEN Throw(funcValue, "runtime_error",
                 "Attempted to call a non-function value (type: " \o typeName(funcValue.val)
                 \o ") derived from: "
                 \o (IF call.callee.kind = "Identifier" THEN call.callee.name ELSE "expression"))
      ELSE IF Len(call.arguments) # Len(funcValue.val.parameters)
      THEN Throw(funcValue, "runtime_error",
                 "Wrong number of arguments for function. Expected "
                 \o to_string(Len(funcValue.val.parameters)) \o ", Got "
                 \o to_string(Len(call.arguments)))
      ELSE (LET evaluated_args == evaluateAll(call.arguments, 1, funcValue, <<>>) IN
             IF evaluated_args.sig # "ok" THEN evaluated_args
             ELSE IF s.depth >= MaxDepth THEN Throw(evaluated_args, "stack_overflow", "")
             ELSE leaveCall(execute(funcValue.val.body,
                                    EnterCall(evaluated_args, funcValue.val,
                                              Len(evaluated_args.trace) + 1, s)),
                            s, Len(evaluated_args.trace) + 1, evaluated_args.globals)))

callFunction(call, s) ==
    (LET funcValue == evaluate(call.callee, s) IN
      IF funcValue.sig # "ok" THEN funcValue
      ELSE IF funcValue.val.t # "Function"
      THEN Throw(funcValue, "runtime_error",
                 "Attempted to call a non-function value (type: " \o typeName(funcValue.val)
                 \o ") derived from: "
                 \o (IF call.callee.kind = "Identifier" THEN call.callee.name ELSE "expression"))
      ELSE IF Len(call.arguments) # Len(funcValue.val.parameters)
      THEN Throw(funcValue, "runtime_error",
                 "Wrong number of arguments for function. Expected "
                 \o to_string(Len(funcValue.val.parameters)) \o ", Got "
                 \o to_string(Len(call.arguments)))
      ELSE (LET evaluated_args == evaluateAll(call.arguments, 1, funcValue, <<>>) IN
             IF evaluated_args.sig # "ok" THEN evaluated_args
             ELSE IF s.depth >= MaxDepth THEN Throw(evaluated_args, "stack_overflow", "")
             ELSE leaveCall(execute(funcValue.val.body,
                                    EnterCall(evaluated_args, funcValue.val,
                                              Len(evaluated_args.trace) + 1, s)),
                            s, Len(evaluated_args.trace) + 1, funcValue.globals)))

\* The dispatch on funcName.  abs, ceil, floor, round, rnd, parse_num,
\* to_string, lower, upper, split, join and replace are not part of the model
\* yet (no arm).
callBuiltin(funcName, call, s) ==
    CASE funcName = "print" -> builtinPrint(call, s)
      [] funcName = "println" -> builtinPrintln(call, s)
      [] funcName = "len" -> builtinLen(call, s)
      [] funcName = "push" -> builtinPush(call, s)
      [] funcName = "pop" -> builtinPop(call, s)
      [] funcName = "insert" -> builtinInsert(call, s)
      [] funcName = "remove" -> builtinRemove(call, s)
      [] funcName = "sort" -> builtinSort(call, s)
      [] funcName = "range" -> builtinRange(call, s)
      [] funcName = "sqrt" -> builtinSqrt(call, s)

\* A call that prefers a user function bound to the callee's name over the
\* built-in of that name.
evaluateFunctionCallBoundFirst(call, s) ==
    IF call.callee.kind = "Identifier" /\ call.callee.name \in BuiltinNames
       /\ ~(call.callee.name \in DOMAIN s.globals
            /\ s.globals[call.callee.name].t = "Function")
    THEN callBuiltin(call.callee.name, call, s)
    ELSE callFunction(call, s)

evaluateFunctionCall(call, s) ==
    IF call.callee.kind = "Identifier" /\ call.callee.name \in BuiltinNames
    THEN callBuiltin(call.callee.name, call, s)
    ELSE callFunction(call, s)

evaluateListLiteral(listLit, s) ==
    (LET values_vec == evaluateAll(listLit.elements, 1, s, <<>>) IN
      IF values_vec.sig # "ok" THEN values_vec ELSE NewList(values_vec, values_vec.val))

evaluate(expr, s) ==
    CASE expr.kind = "NumberLiteral" ->
           Ok(s, IF "value" \in DOMAIN expr THEN NumberV(expr.value)
                 ELSE FractionV(expr.fraction[1], expr.fraction[2]))
      [] expr.kind = "StringLiteral" -> Ok(s, StringV(expr.value))
      [] expr.kind = "NilLiteral" -> Ok(s, NilV)
      [] expr.kind = "ListLiteral" -> evaluateListLiteral(expr, s)
      [] expr.kind = "FunctionDefinition" -> Ok(s, FunctionV(expr.parameters, expr.body))
      [] expr.kind = "FunctionCall" -> evaluateFunctionCall(expr, s)
      [] expr.kind = "UnaryOp" -> evaluateUnaryOp(expr, s)
      [] expr.kind = "IndexAccess" -> evaluateIndexAccess(expr, s)
      [] expr.kind = "Assignment" -> evaluateAssignment(expr, s)
      [] expr.kind = "Identifier" -> evaluateIdentifier(expr, s)
      [] expr.kind = "BinaryOp" -> evaluateBinaryOp(expr, s)
      [] expr.kind = "null" -> Throw(s, "runtime_error", "Null expression")

---------------------------------------------------------------------------
(* Statements (Interpreter::execute). *)

\* History: a ReturnValue, BreakSignal or ContinueSignal is thrown.
Raise(s, sig, v) ==
    Log([s EXCEPT !.sig = sig, !.val = v, !.what = ""],
        [ev |-> "raise", sig |-> sig, at |-> s.cur, loops |-> s.loops, val |-> v,
         out |-> s.output])

executeReturn(returnStmt, s) ==
    IF returnStmt.value.kind # "null"
    THEN (LET r == evaluate(returnStmt.value, s) IN
           IF r.sig # "ok" THEN r ELSE Raise(r, "ReturnValue", r.val))
    ELSE Raise(s, "ReturnValue", NilV)

RECURSIVE executeBlock(_, _, _, _)
executeBlock(statements, i, s, lastValue) ==
    IF i > Len(statements) THEN Ok(s, lastValue)
    ELSE (LET r == execute(statements[i], s) IN
           IF r.sig # "ok" THEN r ELSE executeBlock(statements, i + 1, r, r.val))

RECURSIVE executeElseIfs(_, _, _)
executeElseIfs(ifStmt, i, s) ==
    IF i > Len(ifStmt.elseIfBlocks)
    THEN IF ifStmt.elseBlock.kind # "null" THEN execute(ifStmt.elseBlock, s) ELSE Ok(s, NilV)
    ELSE (LET elseIfCondValue == evaluate(ifStmt.elseIfBlocks[i].condition, s) IN
           IF elseIfCondValue.sig # "ok" THEN elseIfCondValue
           ELSE IF asBool(elseIfCondValue.val, elseIfCondValue.heap)
           THEN execute(ifStmt.elseIfBlocks[i].block, elseIfCondValue)
           ELSE executeElseIfs(ifStmt, i + 1, elseIfCondValue))

executeIf(ifStmt, s) ==
    (LET condValue == evaluate(ifStmt.condition, s) IN
      IF condValue.sig # "ok" THEN condValue
      ELSE IF asBool(condValue.val, condValue.heap)
      THEN execute(ifStmt.thenBlock, condValue)
      ELSE executeElseIfs(ifStmt, 1, condValue))

\* History: loop statement id starts in the state s.
EnterLoop(s, id) ==
    Log([s EXCEPT !.loops = Append(@, id)], [ev |-> "loop", id |-> id, at |-> s.cur])

\* The loop is left normally: return Value{nullptr}.
endLoop(r, own) ==
    Log(Ok([r EXCEPT !.loops = SubSeq(own.loops, 1, Len(own.loops) - 1)], NilV),
        [ev |-> "endloop", loop |-> own.loops[Len(own.loops)]])

\* catch (const BreakSignal&) / catch (const ContinueSignal&) of a loop whose
\* state at its start was own: the signal ends here.
catchSignal(r, own) ==
    Log([r EXCEPT !.sig = "ok", !.val = NilV, !.cur = own.cur, !.depth = own.depth,
                  !.loops = own.loops],
        [ev |-> "catch", sig |-> r.sig, by |-> own.loops[Len(own.loops)], at |-> own.cur,
         from |-> r.cur])

\* History: the head of loop own is reached (the condition of a while is about
\* to be evaluated, the iterator of a for compared with the end).
LogIter(s, own) == Log(s, [ev |-> "iter", loop |-> own.loops[Len(own.loops)]])

RECURSIVE whileIterations(_, _, _, _)
whileIterations(whileStmt, s, own, n) ==
    (LET cond == evaluate(whileStmt.condition, LogIter(s, own)) IN
      IF cond.sig # "ok" THEN cond
      ELSE IF ~asBool(cond.val, cond.heap) THEN endLoop(cond, own)
      ELSE IF n >= MaxIter THEN Throw(cond, "diverge", "")
      ELSE (LET body == execute(whileStmt.body, cond) IN
             CASE body.sig = "ok" -> whileIterations(whileStmt, body, own, n + 1)
               [] body.sig = "BreakSignal" -> endLoop(catchSignal(body, own), own)
               [] body.sig = "ContinueSignal" ->
                    whileIterations(whileStmt, catchSignal(body, own), own, n + 1)
               [] OTHER -> body))

executeWhile(whileStmt, s) ==
    (LET own == EnterLoop(s, Len(s.trace) + 1) IN whileIterations(whileStmt, own, own, 0))

\* The range-based for over the list at ref (n elements when the loop began)
\* or over the characters chars of a string.  A list whose size changed
\* under the loop invalidates the iterators: undefined behaviour.
RECURSIVE forIterations(_, _, _, _, _)
\* A for loop that a continue signal ends, as a break signal does.
forIterationsEndedByContinue(forStmt, s, own, over, i) ==
    (LET head == LogIter(s, own) IN
      IF i > over.n THEN endLoop(head, own)
      ELSE (LET body == execute(forStmt.body,
                        [head EXCEPT !.globals =
                            Put(@, forStmt.variableName,
                                IF over.isList THEN head.heap[over.ref][i]
                                ELSE StringV(<<over.chars[i]>>))]) IN
             CASE body.sig = "ok" -> forIterations(forStmt, body, own, over, i + 1)
               [] body.sig \in {"BreakSignal", "ContinueSignal"} ->
                    endLoop(catchSignal(body, own), own)
               [] OTHER -> body))

forIterations(forStmt, s, own, over, i) ==
    (LET head == LogIter(s, own) IN
      IF over.isList /\ Len(head.heap[over.ref]) # over.n THEN Throw(head, "undefined", "")
      ELSE IF i > over.n THEN endLoop(head, own)
      ELSE (LET body == execute(forStmt.body,
                        [head EXCEPT !.globals =
                            Put(@, forStmt.variableName,
                                IF over.isList THEN head.heap[over.ref][i]
                                ELSE StringV(<<over.chars[i]>>))]) IN
             CASE body.sig = "ok" -> forIterations(forStmt, body, own, over, i + 1)
               [] body.sig = "BreakSignal" -> endLoop(catchSignal(body, own), own)
               [] body.sig = "ContinueSignal" ->
                    forIterations(forStmt, catchSignal(body, own), own, over, i + 1)
               [] OTHER -> body))

\* The special case for `for ... in range(...)` evaluates the call and iterates
\* over its list, which is what the general case does with it.
executeFor(forStmt, s) ==
    (LET iterableValue == evaluate(forStmt.iterable, s) IN
      IF iterableValue.sig # "ok" THEN iterableValue
      ELSE IF iterableValue.val.t \in {"List", "String"}
      THEN (LET own == EnterLoop(iterableValue, Len(iterableValue.trace) + 1) IN
             forIterations(forStmt, own, own,
                           IF iterableValue.val.t = "List"
                           THEN [isList |-> TRUE, ref |-> iterableValue.val.ref,
                                 chars |-> <<>>,
                                 n |-> Len(iterableValue.heap[iterableValue.val.ref])]
                           ELSE [isList |-> FALSE, ref |-> 0, chars |-> iterableValue.val.s,
                                 n |-> Len(iterableValue.val.s)],
                           1))
      ELSE Throw(iterableValue, "runtime_error",
                 "For loop can only iterate over lists or strings. Got: "
                 \o typeName(iterableValue.val)))

\* History: a statement of call instance s.cur is executed.
LogStatement(s, node) == Log(s, [ev |-> "stmt", kind |-> node.kind, at |-> s.cur])

execute(node, s) ==
    IF node.kind = "Block" THEN executeBlock(node.statements, 1, s, NilV)
    ELSE (LET st == LogStatement(s, node) IN
           CASE node.kind = "ReturnStatement" -> executeReturn(node, st)
             [] node.kind = "BreakStatement" -> Raise(st, "BreakSignal", NilV)
             [] node.kind = "ContinueStatement" -> Raise(st, "ContinueSignal", NilV)
             [] node.kind = "ExpressionStatement" -> evaluate(node.expression, st)
             [] node.kind = "IfStatement" -> executeIf(node, st)
             [] node.kind = "WhileStatement" -> executeWhile(node, st)
             [] node.kind = "ForStatement" -> executeFor(node, st))

---------------------------------------------------------------------------
(* The lexer (lexer.h).  A source text is a sequence of characters; NUL is  *)
(* what current() returns at and after the end of the text.                 *)

NUL == "\\0"
LowerCase == {"a", "b", "c", "d", "e", "f", "g", "h", "i", "j", "k", "l", "m",
              "n", "o", "p", "q", "r", "s", "t", "u", "v", "w", "x", "y", "z"}
UpperCase == {"A", "B", "C", "D", "E", "F", "G", "H", "I", "J", "K", "L", "M",
              "N", "O", "P", "Q", "R", "S", "T", "U", "V", "W", "X", "Y", "Z"}
DecimalDigits == {"0", "1", "2", "3", "4", "5", "6", "7", "8", "9"}
Spaces == {" ", "\t", "\n", "\r", "\f"}
isalpha(c) == c \in LowerCase \cup UpperCase
isdigit(c) == c \in DecimalDigits
isspace(c) == c \in Spaces

Keywords ==
    {"function", "if", "then", "else", "and", "not", "end", "for", "in", "return",
     "while", "break", "continue", "or", "nil", "true", "false"}

\* The characters chars as one string.
RECURSIVE StringOf(_)
StringOf(chars) == IF chars = <<>> THEN "" ELSE Head(chars) \o StringOf(Tail(chars))

Token(type, value) == [type |-> type, value |-> value]

\* char current() const, at position pos (from 1)
current(src, pos) == IF pos <= Len(src) THEN src[pos] ELSE NUL

\* while (current() is in class) advance();  the position reached
RECURSIVE SkipWhile(_, _, _)
SkipWhile(src, pos, class) ==
    IF current(src, pos) \in class THEN SkipWhile(src, pos + 1, class) ELSE pos

\* while (current() is not in class) advance();  the position reached
RECURSIVE SkipUntil(_, _, _)
SkipUntil(src, pos, class) ==
    IF current(src, pos) \notin class THEN SkipUntil(src, pos + 1, class) ELSE pos

\* What a read... function leaves: the position after the token, the token,
\* the message of the exception thrown ("" when none).
Read(pos, token) == [pos |-> pos, token |-> token, err |-> ""]
LexError(pos, msg) == [pos |-> pos, token |-> Token("none", <<>>), err |-> msg]

readIdentifierOrKeyword(src, pos) ==
    LET end == SkipWhile(src, pos, LowerCase \cup UpperCase \cup DecimalDigits \cup {"_"})
        value == SubSeq(src, pos, end - 1)
    IN Read(end, Token(IF StringOf(value) \in Keywords THEN "Keyword" ELSE "Identifier",
                       value))

readNumber(src, pos) ==
    LET int == SkipWhile(src, pos, DecimalDigits)
        frac == IF current(src, int) = "." THEN SkipWhile(src, int + 1, DecimalDigits) ELSE int
        sign == IF current(src, frac + 1) \in {"+", "-"} THEN frac + 2 ELSE frac + 1
        end == IF current(src, frac) \in {"e", "E"} THEN SkipWhile(src, sign, DecimalDigits)
               ELSE frac
    IN Read(end, Token("Number", SubSeq(src, pos, end - 1)))

\* The loop of readString from position pos, value being what it has read.
RECURSIVE readStringFrom(_, _, _)
readStringFrom(src, pos, value) ==
    IF current(src, pos) \in {"\"", NUL}
    THEN Read(IF current(src, pos) = "\"" THEN pos + 1 ELSE pos, Token("String", value))
    ELSE IF current(src, pos) = "\\"
    THEN LET c == current(src, pos + 1)
         IN readStringFrom(src, pos + 2,
                           Append(value, CASE c = "n" -> "\n"
                                           [] c = "t" -> "\t"
                                           [] OTHER -> c))
    ELSE readStringFrom(src, pos + 1, Append(value, current(src, pos)))

readString(src, pos) == readStringFrom(src, pos + 1, <<>>)

\* The characters that may be followed by `=` to make one operator.
WithEquals == {"=", "+", "-", "*", "/", "%", "^", "<", ">"}

readSymbol(src, pos) ==
    LET c == current(src, pos)
        next == current(src, pos + 1)
    IN CASE c = "(" -> Read(pos + 1, Token("LParen", <<c>>))
         [] c = ")" -> Read(pos + 1, Token("RParen", <<c>>))
         [] c = "[" -> Read(pos + 1, Token("LBracket", <<c>>))
         [] c = "]" -> Read(pos + 1, Token("RBracket", <<c>>))
         [] c = "," -> Read(SkipWhile(src, pos + 1, Spaces \ {"\n"}),
                            Token("Comma", <<c>>))
         [] c = ":" -> Read(pos + 1, Token("Colon", <<c>>))
         [] c \in WithEquals ->
              IF next = "=" THEN Read(pos + 2, Token("Operator", <<c, "=">>))
              ELSE Read(pos + 1, Token("Operator", <<c>>))
         [] c = "!" ->
              IF next = "=" THEN Read(pos + 2, Token("Operator", <<c, "=">>))
              ELSE LexError(pos + 1, "Expected '=' after '!'")
         [] c = ";" -> Read(pos + 1, Token("Semicolon", <<c>>))
         [] OTHER -> LexError(pos + 1, "Unexpected character: " \o c)

\* Body of the value, the value being computed once and before Body.
Bind(value, Body(_)) == CHOOSE r \in {Body(v) : v \in {value}} : TRUE

\* The lexer inside tokenize: its position, the tokens pushed so far, the
\* message of the exception thrown ("" when none), and whether the loop has
\* ended.
Lexer(pos, tks, err, done) == [pos |-> pos, tokens |-> tks, err |-> err, done |-> done]

\* tokens.push_back(token) for the token that a read... function left in r
Pushed(l, r) ==
    IF r.err # "" THEN Lexer(r.pos, l.tokens, r.err, TRUE)
    ELSE Lexer(r.pos, Append(l.tokens, r.token), "", FALSE)

\* One iteration of the loop of tokenize, and after the loop the EndOfFile
\* token.
tokenizeStep(src, l) ==
    LET c == current(src, l.pos)
    IN IF l.done THEN l
       ELSE IF c = NUL THEN Lexer(l.pos, Append(l.tokens, Token("EndOfFile", <<>>)), "", TRUE)
       ELSE IF c = "\n"
       THEN Lexer(l.pos + 1, Append(l.tokens, Token("EndOfLine", <<c>>)), "", FALSE)
       ELSE IF isspace(c) THEN Lexer(l.pos + 1, l.tokens, "", FALSE)
       ELSE IF c = "/" /\ current(src, l.pos + 1) = "/"
       THEN Lexer(SkipUntil(src, l.pos, {"\n", NUL}), l.tokens, "", FALSE)
       ELSE IF isalpha(c) THEN Pushed(l, readIdentifierOrKeyword(src, l.pos))
       ELSE IF isdigit(c) THEN Pushed(l, readNumber(src, l.pos))
       ELSE IF c = "\"" THEN Pushed(l, readString(src, l.pos))
       ELSE Pushed(l, readSymbol(src, l.pos))

\* n iterations of the loop of tokenize, from the lexer l.
RECURSIVE tokenizeSteps(_, _, _)
tokenizeSteps(src, l, n) ==
    IF n = 1 THEN tokenizeStep(src, l)
    ELSE Bind(tokenizeSteps(src, l, n \div 2), LAMBDA half :
           IF half.done THEN half ELSE tokenizeSteps(src, half, n - (n \div 2)))

\* std::vector<Token> tokenize(): the tokens, and the message of the exception
\* thrown ("" when none).  Every iteration but the last moves the position on,
\* so the loop ends within Len(src) + 1 iterations.
tokenize(src) ==
    Bind(tokenizeSteps(src, Lexer(1, <<>>, "", FALSE), Len(src) + 1), LAMBDA l :
       [tokens |-> l.tokens, err |-> l.err])

---------------------------------------------------------------------------
(* The parser (parser.h).  tks is the vector of tokens and cur the index     *)
(* of the current one, from 1: Parser::current + 1.                          *)

peek(tks, cur) == tks[cur]
isAtEnd(tks, cur) == peek(tks, cur).type = "EndOfFile"
previous(tks, cur) == tks[cur - 1]
check(tks, cur, type) == ~isAtEnd(tks, cur) /\ peek(tks, cur).type = type
\* Parser::current after advance()
advance(tks, cur) == IF isAtEnd(tks, cur) THEN cur ELSE cur + 1
\* peek().type == type && peek().value == value
peekIs(tks, cur, type, value) ==
    peek(tks, cur).type = type /\ StringOf(peek(tks, cur).value) = value

\* What a parse... function leaves: the current token, the node it returns,
\* and the exception it throws (err is "" when it throws none).
Parsed(cur, node) == [current |-> cur, node |-> node, err |-> "", type |-> "none"]
ParseError(cur, msg) ==
    [current |-> cur, node |-> NoNode, err |-> msg, type |-> "runtime_error"]
StodError(cur, type) == [current |-> cur, node |-> NoNode, err |-> "stod", type |-> type]

\* const Token& consume(TokenType type, const std::string& message)
consume(tks, cur, type, message) ==
    IF check(tks, cur, type) THEN Parsed(advance(tks, cur), NoNode)
    ELSE ParseError(cur, message)

\* if (!match(TokenType::Keyword) || previous().value != word) throw message + Got
expectKeyword(tks, cur, word, message, got) ==
    LET next == IF check(tks, cur, "Keyword") THEN cur + 1 ELSE cur
    IN IF next > cur /\ StringOf(previous(tks, next).value) = word
       THEN Parsed(next, NoNode)
       ELSE ParseError(next,
              message \o (IF ~got THEN ""
                          ELSE IF isAtEnd(tks, next) THEN "EOF"
                          ELSE IF next = 1 THEN ""
                          ELSE StringOf(previous(tks, next).value)))

\* The largest number the model's arithmetic holds, and its count of digits.
MaxDigits == 9

RECURSIVE NumberOf(_)
NumberOf(digits) ==
    IF digits = <<>> THEN 0
    ELSE 10 * NumberOf(SubSeq(digits, 1, Len(digits) - 1))
         + (CHOOSE d \in 0..9 : Digit[d + 1] = digits[Len(digits)])

RECURSIVE Pow10(_)
Pow10(k) == IF k = 0 THEN 1 ELSE 10 * Pow10(k - 1)

RECURSIVE GCD(_, _)
GCD(a, b) == IF b = 0 THEN a ELSE GCD(b, a % b)

RECURSIVE StripZeros(_)
StripZeros(digits) ==
    IF digits # <<>> /\ Head(digits) = "0" THEN StripZeros(Tail(digits)) ELSE digits

\* std::stod of the text of a Number token: the literal node, an
\* std::out_of_range, or a number outside the model's arithmetic.
stod(chars, cur) ==
    LET int == SkipWhile(chars, 1, DecimalDigits)
        frac == IF current(chars, int) = "." THEN SkipWhile(chars, int + 1, DecimalDigits)
                ELSE int
        fracDigits == IF frac > int THEN SubSeq(chars, int + 1, frac - 1) ELSE <<>>
        negative == current(chars, frac + 1) = "-"
        expStart == IF current(chars, frac + 1) \in {"+", "-"} THEN frac + 2 ELSE frac + 1
        expDigits == StripZeros(IF current(chars, frac) \in {"e", "E"}
                                THEN SubSeq(chars, expStart, Len(chars)) ELSE <<>>)
        mantissa == StripZeros(SubSeq(chars, 1, int - 1) \o fracDigits)
        Exponent == IF negative THEN 0 - NumberOf(expDigits) ELSE NumberOf(expDigits)
        Scale == Exponent - Len(fracDigits)
        Magnitude == Len(mantissa) + Scale
        M == NumberOf(mantissa)
        Den == Pow10(0 - Scale) \div GCD(M, Pow10(0 - Scale))
    IN IF mantissa = <<>> THEN Parsed(cur, NumberLiteral(0))
       ELSE IF Len(expDigits) > 3 \/ Magnitude > 309 \/ Magnitude < -330
       THEN StodError(cur, "out_of_range")
       ELSE IF Len(mantissa) > MaxDigits \/ Magnitude > MaxDigits \/ Scale < 0 - MaxDigits
       THEN StodError(cur, "undefined")
       ELSE IF Scale >= 0 THEN Parsed(cur, NumberLiteral(M * Pow10(Scale)))
       ELSE IF Den = 1 THEN Parsed(cur, NumberLiteral(M \div Pow10(0 - Scale)))
       ELSE Parsed(cur, FractionLiteral(M \div GCD(M, Pow10(0 - Scale)), Den))

\* Parser(rule, tks, cur) is the member function named rule of the parser,
\* called with cur the current token: the parse... functions call one another
\* through it.
RECURSIVE Parser(_, _, _)
RECURSIVE parseLogicalOrRest(_, _)
RECURSIVE parseLogicalAndRest(_, _)
RECURSIVE parseEqualityRest(_, _)
RECURSIVE parseComparisonRest(_, _)
RECURSIVE parseTermRest(_, _)
RECURSIVE parseFactorRest(_, _)
RECURSIVE parsePostfix(_, _)
RECURSIVE parseExpressions(_, _, _)
RECURSIVE parseParameters(_, _, _)
RECURSIVE parseStatements(_, _, _)
RECURSIVE parseElseBlocks(_, _, _)

\* The loop of a left-associative binary operator: left is the operand parsed
\* so far; while the current token is one of ops, parse the right operand.
OperatorAhead(tks, cur, type, ops) ==
    peek(tks, cur).type = type /\ StringOf(peek(tks, cur).value) \in ops
Joined(tks, left, right) ==
    Parsed(right.current,
           BinaryOp(StringOf(peek(tks, left.current).value), left.node, right.node))

\* the loop of parseFactor
parseFactorRest(tks, left) ==
    LET right == Parser("parseUnary", tks, left.current + 1)
    IN IF left.err # "" THEN left
       ELSE IF ~OperatorAhead(tks, left.current, "Operator", {"*", "/", "%"}) THEN left
       ELSE IF right.err # "" THEN right
       ELSE parseFactorRest(tks, Joined(tks, left, right))

\* the loop of parseTerm
parseTermRest(tks, left) ==
    LET right == Parser("parseFactor", tks, left.current + 1)
    IN IF left.err # "" THEN left
       ELSE IF ~OperatorAhead(tks, left.current, "Operator", {"+", "-"}) THEN left
       ELSE IF right.err # "" THEN right
       ELSE parseTermRest(tks, Joined(tks, left, right))

\* the loop of parseComparison
parseComparisonRest(tks, left) ==
    LET right == Parser("parseTerm", tks, left.current + 1)
    IN IF left.err # "" THEN left
       ELSE IF ~OperatorAhead(tks, left.current, "Operator", {"<", "<=", ">", ">="})
       THEN left
       ELSE IF right.err # "" THEN right
       ELSE parseComparisonRest(tks, Joined(tks, left, right))

\* the loop of parseEquality
parseEqualityRest(tks, left) ==
    LET right == Parser("parseComparison", tks, left.current + 1)
    IN IF left.err # "" THEN left
       ELSE IF ~OperatorAhead(tks, left.current, "Operator", {"==", "!="}) THEN left
       ELSE IF right.err # "" THEN right
       ELSE parseEqualityRest(tks, Joined(tks, left, right))

\* the loop of parseLogicalAnd
parseLogicalAndRest(tks, left) ==
    LET right == Parser("parseEquality", tks, left.current + 1)
    IN IF left.err # "" THEN left
       ELSE IF ~OperatorAhead(tks, left.current, "Keyword", {"and"}) THEN left
       ELSE IF right.err # "" THEN right
       ELSE parseLogicalAndRest(tks, Joined(tks, left, right))

\* the loop of parseLogicalOr
parseLogicalOrRest(tks, left) ==
    LET right == Parser("parseLogicalAnd", tks, left.current + 1)
    IN IF left.err # "" THEN left
       ELSE IF ~OperatorAhead(tks, left.current, "Keyword", {"or"}) THEN left
       ELSE IF right.err # "" THEN right
       ELSE parseLogicalOrRest(tks, Joined(tks, left, right))

\* parseFactor, parseTerm, parseComparison, parseEquality, parseLogicalAnd and
\* parseLogicalOr (level 1 to 6) each begin by calling the one before for
\* their left operand, down to parseUnary, and then run their loop: the loops
\* of the levels 1 .. level, one after the other, from the unary operand.
parseBinary(tks, cur, level) ==
    LET unary == Parser("parseUnary", tks, cur)
        factor == parseFactorRest(tks, unary)
        term == parseTermRest(tks, factor)
        comparison == parseComparisonRest(tks, term)
        equality == parseEqualityRest(tks, comparison)
        logicalAnd == parseLogicalAndRest(tks, equality)
    IN IF unary.err # "" THEN unary
       ELSE IF factor.err # "" \/ level = 1 THEN factor
       ELSE IF term.err # "" \/ level = 2 THEN term
       ELSE IF comparison.err # "" \/ level = 3 THEN comparison
       ELSE IF equality.err # "" \/ level = 4 THEN equality
       ELSE IF logicalAnd.err # "" \/ level = 5 THEN logicalAnd
       ELSE parseLogicalOrRest(tks, logicalAnd)

parseFactor(tks, cur) == parseBinary(tks, cur, 1)
parseTerm(tks, cur) == parseBinary(tks, cur, 2)
parseComparison(tks, cur) == parseBinary(tks, cur, 3)
parseEquality(tks, cur) == parseBinary(tks, cur, 4)
parseLogicalAnd(tks, cur) == parseBinary(tks, cur, 5)
parseLogicalOr(tks, cur) == parseBinary(tks, cur, 6)

AssignmentOperators == {"=", "+=", "-=", "*=", "/=", "%=", "^="}

parseAssignment(tks, cur) ==
    LET expr == parseLogicalOr(tks, cur)
        valueExpr == Parser("parseAssignment", tks, expr.current + 1)
    IN IF expr.err # "" THEN expr
       ELSE IF ~OperatorAhead(tks, expr.current, "Operator", AssignmentOperators) THEN expr
       ELSE IF expr.node.kind # "Identifier"
       THEN ParseError(expr.current, "Invalid target for assignment. Expected an identifier.")
       ELSE IF valueExpr.err # "" THEN valueExpr
       ELSE Parsed(valueExpr.current,
                   Assignment(expr.node.name, valueExpr.node,
                              StringOf(peek(tks, expr.current).value)))

parseExpression(tks, cur) == parseAssignment(tks, cur)

parseUnary(tks, cur) ==
    LET operand == Parser("parseUnary", tks, cur + 1)
    IN IF peekIs(tks, cur, "Keyword", "not")
       THEN IF operand.err # "" THEN operand
            ELSE Parsed(operand.current, UnaryOp("not", operand.node))
       ELSE IF peekIs(tks, cur, "Operator", "-")
       THEN IF operand.err # "" THEN operand
            ELSE Parsed(operand.current, UnaryOp("-", operand.node))
       ELSE Parser("parsePrimary", tks, cur)

\* do { parseExpression(); push_back } while (match(Comma)): the elements of
\* a list literal or the arguments of a call, after those already in done
parseExpressions(tks, cur, done) ==
    LET element == Parser("parseExpression", tks, cur)
    IN IF element.err # "" THEN element
       ELSE IF check(tks, element.current, "Comma")
       THEN parseExpressions(tks, element.current + 1, Append(done, element.node))
       ELSE Parsed(element.current, Append(done, element.node))

\* do { parameters.push_back(advance().value) } while (match(Comma))
parseParameters(tks, cur, done) ==
    IF ~check(tks, cur, "Identifier")
    THEN ParseError(cur, "Expected parameter name, got: " \o StringOf(peek(tks, cur).value))
    ELSE IF check(tks, cur + 1, "Comma")
    THEN parseParameters(tks, cur + 2, Append(done, StringOf(peek(tks, cur).value)))
    ELSE Parsed(cur + 1, Append(done, StringOf(peek(tks, cur).value)))

\* while (match(TokenType::EndOfLine)) {}
RECURSIVE SkipEndOfLines(_, _)
SkipEndOfLines(tks, cur) ==
    IF peek(tks, cur).type = "EndOfLine" THEN SkipEndOfLines(tks, cur + 1) ELSE cur

\* The statements of parseBlock after those already in done: up to the end of
\* the input or a keyword that ends a block, skipping the ends of lines.
BlockEnds(tks, cur) ==
    \/ isAtEnd(tks, cur)
    \/ OperatorAhead(tks, cur, "Keyword", {"end", "else", "else if"})

parseStatements(tks, cur, done) ==
    LET start == SkipEndOfLines(tks, cur)
        stmt == Parser("parseStatement", tks, start)
    IN IF BlockEnds(tks, start) THEN Parsed(start, Block(done))
       ELSE IF stmt.err # "" THEN stmt
       ELSE parseStatements(tks, stmt.current, Append(done, stmt.node))

parseBlock(tks, cur) == parseStatements(tks, cur, <<>>)

\* keyword function of parsePrimary, cur being the token after it
parseFunctionDefinition(tks, cur) ==
    LET lparen == consume(tks, cur, "LParen", "Expected '(' after 'function'")
        parameters == IF check(tks, lparen.current, "RParen")
                      THEN Parsed(lparen.current, <<>>)
                      ELSE parseParameters(tks, lparen.current, <<>>)
        rparen == consume(tks, parameters.current, "RParen",
                          "Expect ')' after function parameters")
        body == Parser("parseBlock", tks, rparen.current)
        end == consume(tks, body.current, "Keyword", "Expected 'end' after function body")
        fn == consume(tks, end.current, "Keyword",
                      "Expected 'function' after 'end' for function definition")
    IN IF lparen.err # "" THEN lparen
       ELSE IF parameters.err # "" THEN parameters
       ELSE IF rparen.err # "" THEN rparen
       ELSE IF body.err # "" THEN body
       ELSE IF end.err # "" THEN end
       ELSE IF StringOf(previous(tks, end.current).value) # "end"
       THEN ParseError(end.current,
                       "Expected keyword 'end' but got '"
                       \o StringOf(previous(tks, end.current).value)
                       \o "' after function body")
       ELSE IF fn.err # "" THEN fn
       ELSE IF StringOf(previous(tks, fn.current).value) # "function"
       THEN ParseError(fn.current,
                       "Expected keyword 'function' after 'end' but got '"
                       \o StringOf(previous(tks, fn.current).value) \o "'")
       ELSE Parsed(fn.current, FunctionDefinition(parameters.node, body.node.statements))

\* ( of parsePrimary: an expression in parentheses
parseParenthesized(tks, cur) ==
    LET expr == Parser("parseExpression", tks, cur + 1)
    IN IF expr.err # "" THEN expr
       ELSE IF check(tks, expr.current, "RParen") THEN Parsed(expr.current + 1, expr.node)
       ELSE ParseError(expr.current, "Expected ')' after expression in parentheses")

\* [ of parsePrimary: a list literal
parseListLiteral(tks, cur) ==
    LET elements == IF check(tks, cur + 1, "RBracket") THEN Parsed(cur + 1, <<>>)
                    ELSE parseExpressions(tks, cur + 1, <<>>)
    IN IF elements.err # "" THEN elements
       ELSE IF check(tks, elements.current, "RBracket")
       THEN Parsed(elements.current + 1, ListLiteral(elements.node))
       ELSE ParseError(elements.current, "Expected ']' after list elements")

\* the first part of parsePrimary: the expression before any call or index
parsePrimaryHead(tks, cur) ==
    LET token == peek(tks, cur)
        keyword == StringOf(token.value)
    IN CASE token.type = "EndOfFile" ->
              ParseError(cur, "Parser error: Unexpected end of input while expecting "
                              \o "a primary expression.")
         [] token.type = "Identifier" -> Parsed(cur + 1, Identifier(StringOf(token.value)))
         [] token.type = "Number" -> stod(token.value, cur + 1)
         [] token.type = "String" -> Parsed(cur + 1, StringLiteral(token.value))
         [] token.type = "LParen" -> parseParenthesized(tks, cur)
         [] token.type = "LBracket" -> parseListLiteral(tks, cur)
         [] token.type = "Keyword" /\ keyword = "true" -> Parsed(cur + 1, NumberLiteral(1))
         [] token.type = "Keyword" /\ keyword = "false" -> Parsed(cur + 1, NumberLiteral(0))
         [] token.type = "Keyword" /\ keyword = "nil" -> Parsed(cur + 1, NilLiteral)
         [] token.type = "Keyword" /\ keyword = "function" ->
              Parser("parseFunctionDefinition", tks, cur + 1)
         [] token.type = "Keyword" /\ keyword \notin {"true", "false", "nil", "function"} ->
              ParseError(cur, "Unexpected keyword in primary expression: " \o keyword)
         [] OTHER -> ParseError(cur, "Unexpected token in primary expression: "
                                     \o StringOf(token.value))

\* The message for expr[], without the backquotes the source puts around [] and
\* around expr[index].
EmptyIndex ==
    "Invalid empty index operation on an expression. "
    \o "List literals are [], index is expr[index]."

\* An expression of an index or slice, absent when a token of stops is ahead.
parseOptional(tks, cur, stops) ==
    IF \E type \in stops : check(tks, cur, type) THEN Parsed(cur, NoNode)
    ELSE Parser("parseExpression", tks, cur)

\* [ after an expression: expr[index] or expr[start:end:step]
parseIndexOrSlice(tks, expr) ==
    LET p_start == parseOptional(tks, expr.current + 1, {"Colon", "RBracket"})
        index_close == consume(tks, p_start.current, "RBracket",
                               "Expected ']' after index or slice expression")
        p_end == parseOptional(tks, p_start.current + 1, {"RBracket", "Colon"})
        p_step == IF check(tks, p_end.current, "Colon")
                  THEN parseOptional(tks, p_end.current + 1, {"RBracket"})
                  ELSE Parsed(p_end.current, NoNode)
        close == consume(tks, p_step.current, "RBracket",
                         "Expected ']' after index or slice expression")
    IN IF p_start.err # "" THEN p_start
       ELSE IF ~check(tks, p_start.current, "Colon")
       THEN IF index_close.err # "" THEN index_close
            ELSE IF p_start.node.kind = "null"
            THEN ParseError(index_close.current, EmptyIndex)
            ELSE Parsed(index_close.current, IndexAccess(expr.node, p_start.node))
       ELSE IF p_end.err # "" THEN p_end
       ELSE IF p_step.err # "" THEN p_step
       ELSE IF close.err # "" THEN close
       ELSE Parsed(close.current,
                   SliceAccess(expr.node, p_start.node, p_end.node, p_step.node))

\* the loop of parsePrimary: calls and indexes after the expression expr
parsePostfix(tks, expr) ==
    LET args == IF check(tks, expr.current + 1, "RParen")
                THEN Parsed(expr.current + 1, <<>>)
                ELSE parseExpressions(tks, expr.current + 1, <<>>)
    IN IF expr.err # "" THEN expr
       ELSE IF peek(tks, expr.current).type = "LParen"
       THEN IF args.err # "" THEN args
            ELSE IF check(tks, args.current, "RParen")
            THEN parsePostfix(tks, Parsed(args.current + 1,
                                             FunctionCall(expr.node, args.node)))
            ELSE ParseError(args.current,
                            "Expected ')' after function arguments for "
                            \o (IF expr.node.kind = "Identifier" THEN expr.node.name
                                ELSE "expression"))
       ELSE IF peek(tks, expr.current).type = "LBracket"
       THEN parsePostfix(tks, parseIndexOrSlice(tks, expr))
       ELSE expr

parsePrimary(tks, cur) == parsePostfix(tks, parsePrimaryHead(tks, cur))

\* the loop of parseIfStatement over else if and else, ifStmt being the
\* statement so far
parseElseBlocks(tks, cur, ifStmt) ==
    LET elseIfCondition == Parser("parseExpression", tks, cur + 2)
        then == expectKeyword(tks, elseIfCondition.current, "then",
                              "Expected 'then' after else if condition", FALSE)
        elseIfBlock == Parser("parseBlock", tks, then.current)
        elseBlock == Parser("parseBlock", tks, cur + 1)
    IN IF ~(check(tks, cur, "Keyword") /\ peekIs(tks, cur, "Keyword", "else"))
       THEN Parsed(cur, ifStmt)
       ELSE IF check(tks, cur + 1, "Keyword") /\ peekIs(tks, cur + 1, "Keyword", "if")
       THEN IF elseIfCondition.err # "" THEN elseIfCondition
            ELSE IF then.err # "" THEN then
            ELSE IF elseIfBlock.err # "" THEN elseIfBlock
            ELSE parseElseBlocks(tks, elseIfBlock.current,
                   [ifStmt EXCEPT !.elseIfBlocks =
                       Append(@, [condition |-> elseIfCondition.node,
                                  block |-> elseIfBlock.node])])
       ELSE IF elseBlock.err # "" THEN elseBlock
       ELSE Parsed(elseBlock.current, [ifStmt EXCEPT !.elseBlock = elseBlock.node])

parseIfStatement(tks, cur) ==
    LET condition == Parser("parseExpression", tks, advance(tks, cur))
        then == expectKeyword(tks, condition.current, "then",
                              "Expected 'then' after if condition", FALSE)
        thenBlock == Parser("parseBlock", tks, then.current)
        ifStmt == parseElseBlocks(tks, thenBlock.current,
                                  IfStatement(condition.node, thenBlock.node.statements,
                                              <<>>, NoNode))
        end == expectKeyword(tks, ifStmt.current, "end",
                             "Expected 'end' after if/else if/else blocks. Got: ", TRUE)
        closed == expectKeyword(tks, end.current, "if",
                                "Expected 'if' after 'end' for IfStatement. Got: ", TRUE)
    IN IF condition.err # "" THEN condition
       ELSE IF then.err # "" THEN then
       ELSE IF thenBlock.err # "" THEN thenBlock
       ELSE IF ifStmt.err # "" THEN ifStmt
       ELSE IF end.err # "" THEN end
       ELSE IF closed.err # "" THEN closed
       ELSE Parsed(closed.current, ifStmt.node)

\* A parseWhileStatement that takes any keyword after end.
parseWhileStatementAnyCloser(tks, cur) ==
    LET condition == Parser("parseExpression", tks, advance(tks, cur))
        body == Parser("parseBlock", tks, condition.current)
        end == expectKeyword(tks, body.current, "end",
                             "Expected 'end' after while body. Got: ", TRUE)
        closed == consume(tks, end.current, "Keyword",
                          "Expected 'while' after 'end' for while statement. Got: ")
    IN IF condition.err # "" THEN condition
       ELSE IF body.err # "" THEN body
       ELSE IF end.err # "" THEN end
       ELSE IF closed.err # "" THEN closed
       ELSE Parsed(closed.current, WhileStatement(condition.node, body.node.statements))

parseWhileStatement(tks, cur) ==
    LET condition == Parser("parseExpression", tks, advance(tks, cur))
        body == Parser("parseBlock", tks, condition.current)
        end == expectKeyword(tks, body.current, "end",
                             "Expected 'end' after while body. Got: ", TRUE)
        closed == expectKeyword(tks, end.current, "while",
                                "Expected 'while' after 'end' for while statement. Got: ",
                                TRUE)
    IN IF condition.err # "" THEN condition
       ELSE IF body.err # "" THEN body
       ELSE IF end.err # "" THEN end
       ELSE IF closed.err # "" THEN closed
       ELSE Parsed(closed.current, WhileStatement(condition.node, body.node.statements))

parseForStatement(tks, cur) ==
    LET variable == consume(tks, advance(tks, cur), "Identifier",
                            "Expected identifier after 'for'.")
        in == expectKeyword(tks, variable.current, "in",
                            "Expected 'in' after for variable. Got: ", TRUE)
        iterable == Parser("parseExpression", tks, in.current)
        body == Parser("parseBlock", tks, iterable.current)
        end == expectKeyword(tks, body.current, "end",
                             "Expected 'end' after for body. Got: ", TRUE)
        closed == expectKeyword(tks, end.current, "for",
                                "Expected 'for' after 'end' for for statement. Got: ", TRUE)
    IN IF variable.err # "" THEN variable
       ELSE IF in.err # "" THEN in
       ELSE IF iterable.err # "" THEN iterable
       ELSE IF body.err # "" THEN body
       ELSE IF end.err # "" THEN end
       ELSE IF closed.err # "" THEN closed
       ELSE Parsed(closed.current,
                   ForStatement(StringOf(previous(tks, variable.current).value),
                                iterable.node, body.node.statements))

\* return of parseStatement, and an expression statement
parseReturnStatement(tks, cur) ==
    LET value == Parser("parseExpression", tks, cur + 1)
    IN IF peek(tks, cur + 1).type = "EndOfLine" \/ peekIs(tks, cur + 1, "Keyword", "end")
       THEN Parsed(cur + 1, ReturnStatement(NoNode))
       ELSE IF value.err # "" THEN value
       ELSE Parsed(value.current, ReturnStatement(value.node))

parseExpressionStatement(tks, cur) ==
    LET expr == Parser("parseExpression", tks, cur)
    IN IF expr.err # "" THEN expr
       ELSE Parsed(IF peek(tks, expr.current).type = "Semicolon" THEN expr.current + 1
                   ELSE expr.current,
                   ExpressionStatement(expr.node))

parseStatement(tks, cur) ==
    LET keyword == IF peek(tks, cur).type = "Keyword" THEN StringOf(peek(tks, cur).value)
                   ELSE ""
    IN CASE keyword = "if" -> Parser("parseIfStatement", tks, cur)
         [] keyword = "while" -> Parser("parseWhileStatement", tks, cur)
         [] keyword = "for" -> Parser("parseForStatement", tks, cur)
         [] keyword = "return" -> parseReturnStatement(tks, cur)
         [] keyword = "break" -> Parsed(cur + 1, BreakStatement)
         [] keyword = "continue" -> Parsed(cur + 1, ContinueStatement)
         [] OTHER -> parseExpressionStatement(tks, cur)

Parser(rule, tks, cur) ==
    CASE rule = "parseExpression" -> parseExpression(tks, cur)
      [] rule = "parseAssignment" -> parseAssignment(tks, cur)
      [] rule = "parseLogicalOr" -> parseLogicalOr(tks, cur)
      [] rule = "parseLogicalAnd" -> parseLogicalAnd(tks, cur)
      [] rule = "parseEquality" -> parseEquality(tks, cur)
      [] rule = "parseComparison" -> parseComparison(tks, cur)
      [] rule = "parseTerm" -> parseTerm(tks, cur)
      [] rule = "parseFactor" -> parseFactor(tks, cur)
      [] rule = "parseUnary" -> parseUnary(tks, cur)
      [] rule = "parsePrimary" -> parsePrimary(tks, cur)
      [] rule = "parseFunctionDefinition" -> parseFunctionDefinition(tks, cur)
      [] rule = "parseBlock" -> parseBlock(tks, cur)
      [] rule = "parseStatement" -> parseStatement(tks, cur)
      [] rule = "parseIfStatement" -> parseIfStatement(tks, cur)
      [] rule = "parseWhileStatement" -> parseWhileStatement(tks, cur)
      [] rule = "parseForStatement" -> parseForStatement(tks, cur)

\* An iteration of parse that ends the program at the first statement in
\* error and keeps the statements before it.
parseStepKeepingStatements(tks, p) ==
    LET start == SkipEndOfLines(tks, p.current)
        stmt == Parser("parseStatement", tks, start)
    IN IF p.err # "" \/ isAtEnd(tks, p.current) THEN p
       ELSE IF isAtEnd(tks, start) THEN Parsed(start, p.node)
       ELSE IF stmt.err # "" THEN Parsed(Len(tks), p.node)
       ELSE Parsed(stmt.current, Append(p.node, stmt.node))

\* One iteration of the loop of parse, p being what the iterations before it
\* left: the current token, the statements of the block, the exception.
parseStep(tks, p) ==
    LET start == SkipEndOfLines(tks, p.current)
        stmt == Parser("parseStatement", tks, start)
    IN IF p.err # "" \/ isAtEnd(tks, p.current) THEN p
       ELSE IF isAtEnd(tks, start) THEN Parsed(start, p.node)
       ELSE IF stmt.err # "" THEN stmt
       ELSE Parsed(stmt.current, Append(p.node, stmt.node))

\* n iterations of the loop of parse, from p.
RECURSIVE parseSteps(_, _, _)
parseSteps(tks, p, n) ==
    IF n = 1 THEN parseStep(tks, p)
    ELSE Bind(parseSteps(tks, p, n \div 2), LAMBDA half :
           IF half.err # "" THEN half ELSE parseSteps(tks, half, n - (n \div 2)))

\* std::unique_ptr<Block> parse(): the statements of the block, or the
\* exception.  Every iteration takes a token, so the loop ends within Len(tks)
\* iterations.
parse(tks) == parseSteps(tks, Parsed(1, <<>>), Len(tks))

---------------------------------------------------------------------------
(* interpret(input, output) of interpreter.cpp, step by step. *)

NoException == [type |-> "none", what |-> "", val |-> NilV]

\* The exception types that derive from std::exception, and the others.
StdExceptions == {"runtime_error", "out_of_range", "bad_variant_access"}
SpecificPrefix == "Runtime error (specific): "
GenericPrefix == "Runtime error (generic): "

\* The evaluator state at the top level, from the variables.
Top ==
    [globals |-> globals, heap |-> heap, output |-> output, trace |-> trace,
     cur |-> 0, depth |-> 0, loops |-> <<>>, sig |-> "ok", val |-> NilV, what |-> ""]

\* A catch clause that writes nothing.
SilentDiagnostic(prefix, what) == <<>>

\* output << prefix << e.what() << std::endl
Diagnostic(prefix, what) ==
    <<[k |-> "diag", lit |-> prefix], [k |-> "what", lit |-> what],
      [k |-> "text", chars |-> <<"\n">>]>>

\* The input is given as text, and not by what the lexer and parser make of it.
GivenAsText == "text" \in DOMAIN source

\* The interpreter after tokenize left lexed: its tokens, or the exception on
\* its way out of interpret.
Tokenized(lexed) ==
    IF lexed.err = ""
    THEN pc' = "parse" /\ thrown' = thrown /\ tokens' = lexed.tokens
    ELSE pc' = "thrown" /\ tokens' = tokens
         /\ thrown' = [type |-> "runtime_error", what |-> lexed.err, val |-> NilV]

\* The interpreter after parse left parsed: the program and the interpreter
\* instance, or the exception on its way out of interpret.
ParsedProgram(parsed) ==
    IF parsed.err = ""
    THEN /\ pc' = "run" /\ thrown' = thrown /\ program' = parsed.node
         /\ globals' = [n \in {"len"} |-> NilV]
    ELSE /\ pc' = "thrown" /\ globals' = globals /\ program' = program
         /\ thrown' = [type |-> parsed.type, what |-> parsed.err, val |-> NilV]

\* Lexer lexer(code_content); auto tokens = lexer.tokenize();
Tokenize ==
    /\ pc = "lex"
    /\ IF GivenAsText
       THEN Tokenized(tokenize(source.text))
       ELSE /\ tokens' = tokens
            /\ IF source.lex = "ok"
               THEN pc' = "parse" /\ thrown' = thrown
               ELSE pc' = "thrown"
                    /\ thrown' = [type |-> source.lex, what |-> "Unexpected character",
                                  val |-> NilV]
    /\ UNCHANGED <<source, program, ip, globals, heap, output, trace, result>>

\* Parser parser(tokens); auto ast = parser.parse(); and, when it returns,
\* Interpreter interpreter_instance(output), whose constructor binds len.
Parse ==
    /\ pc = "parse"
    /\ ParsedProgram(IF GivenAsText THEN parse(tokens)
                     ELSE IF source.parse = "ok" THEN Parsed(1, source.ast)
                     ELSE [ParseError(1, "parse") EXCEPT !.type = source.parse])
    /\ UNCHANGED <<source, tokens, ip, heap, output, trace, result>>

\* The interpreter after execute(stmt.get()) left it in the state r: the next
\* statement, or the exception on its way out of Interpreter::interpret.
Executed(r) ==
    /\ globals' = r.globals
    /\ heap' = r.heap
    /\ output' = r.output
    /\ trace' = r.trace
    /\ IF r.sig = "ok"
       THEN ip' = ip + 1 /\ pc' = "run" /\ thrown' = thrown
       ELSE ip' = ip /\ pc' = "thrown"
            /\ thrown' = [type |-> r.sig, what |-> r.what, val |-> r.val]

\* One iteration of  for (const auto& stmt : program->statements) execute(stmt.get());
ExecuteStatement ==
    /\ pc = "run"
    /\ ip <= Len(program)
    /\ Executed(execute(program[ip], Top))
    /\ UNCHANGED <<source, tokens, program, result>>

\* The statement loop ends; interpret returns true.
ReturnTrue ==
    /\ pc = "run"
    /\ ip > Len(program)
    /\ pc' = "done"
    /\ result' = "true"
    /\ UNCHANGED <<source, tokens, program, ip, globals, heap, output, trace, thrown>>

\* An interpret that reports a ReturnValue as it reports a std::runtime_error.
CatchReturnValueAsError ==
    /\ pc = "thrown"
    /\ thrown.type = "ReturnValue"
    /\ output' = output \o <<[k |-> "diag", lit |-> SpecificPrefix],
                             [k |-> "what", lit |-> "return"],
                             [k |-> "text", chars |-> <<"\n">>]>>
    /\ pc' = "done"
    /\ result' = "false"
    /\ UNCHANGED <<source, tokens, program, ip, globals, heap, trace, thrown>>

\* Interpreter::interpret: catch (const ReturnValue& ret) {}; interpret returns true.
CatchReturnValue ==
    /\ pc = "thrown"
    /\ thrown.type = "ReturnValue"
    /\ pc' = "done"
    /\ result' = "true"
    /\ UNCHANGED <<source, tokens, program, ip, globals, heap, output, trace, thrown>>

\* catch (const std::runtime_error& e)
CatchRuntimeError ==
    /\ pc = "thrown"
    /\ thrown.type = "runtime_error"
    /\ output' = output \o Diagnostic(SpecificPrefix, thrown.what)
    /\ pc' = "done"
    /\ result' = "false"
    /\ UNCHANGED <<source, tokens, program, ip, globals, heap, trace, thrown>>

\* catch (const std::exception& e)
CatchException ==
    /\ pc = "thrown"
    /\ thrown.type \in StdExceptions \ {"runtime_error"}
    /\ output' = output \o Diagnostic(GenericPrefix, thrown.what)
    /\ pc' = "done"
    /\ result' = "false"
    /\ UNCHANGED <<source, tokens, program, ip, globals, heap, trace, thrown>>

\* No catch clause matches (catch (...) { throw; } rethrows): the exception
\* leaves interpret, which returns nothing.
Escape ==
    /\ pc = "thrown"
    /\ thrown.type \in {"BreakSignal", "ContinueSignal"}
    /\ pc' = "done"
    /\ result' = "escaped"
    /\ UNCHANGED <<source, tokens, program, ip, globals, heap, output, trace, thrown>>

---------------------------------------------------------------------------
(* The inputs: source texts, given by what the lexer and the parser make of *)
(* them.  A text that lexes and parses is given by its AST.                 *)

\* nesting of if / while / for around the statement under test
MaxNest == 2

Num(n) == NumberLiteral(n)
\* the integer i as the parser makes it: the literal, under a unary minus when
\* i is negative
Integer(i) == IF i < 0 THEN UnaryOp("-", NumberLiteral(0 - i)) ELSE NumberLiteral(i)
Var(x) == Identifier(x)
Let(x, e) == ExpressionStatement(Assignment(x, e, "="))
Call(f, args) == FunctionCall(Identifier(f), args)
Do(e) == ExpressionStatement(e)
Show(e) == ExpressionStatement(Call("print", <<e>>))
Plus(a, b) == BinaryOp("+", a, b)
Function(params, stmts) == FunctionDefinition(params, stmts)
If(c, stmts) == IfStatement(c, stmts, <<>>, NoNode)
IfElse(c, stmts, els) == IfStatement(c, stmts, <<>>, Block(els))

\* The statements under test.
Atoms ==
    {Let("x", Num(2)), Show(Var("x")), ReturnStatement(Var("x")), ReturnStatement(NoNode),
     BreakStatement, ContinueStatement}

\* The loop counter and the loop variable used at nesting level d.
Counter(d) == <<"n", "m", "k">>[d]
LoopVar(d) == <<"i", "j", "l">>[d]

\* stmt inside an if, the else of an if, a while or a for; a loop goes on
\* with a print after stmt.
Wrapped(stmt, d) ==
    { If(Num(1), <<stmt>>),
      IfElse(Num(0), <<Show(Num(0))>>, <<stmt>>),
      WhileStatement(BinaryOp("<", Var(Counter(d)), Num(2)),
                     <<Let(Counter(d), Plus(Var(Counter(d)), Num(1))), stmt,
                       Show(Var(Counter(d)))>>),
      ForStatement(LoopVar(d), ListLiteral(<<Num(7), Num(8)>>),
                   <<stmt, Show(Var(LoopVar(d)))>>) }

\* The atoms under at most d levels of if / while / for.
RECURSIVE Nested(_)
Nested(d) ==
    IF d = 0 THEN Atoms
    ELSE Atoms \cup UNION {Wrapped(stmt, d) : stmt \in Nested(d - 1)}

Prologue == <<Let("x", Num(1)), Let("n", Num(0)), Let("m", Num(0)), Let("k", Num(0))>>

\* A statement at the top level, between two prints.
TopLevelPrograms ==
    {Prologue \o <<Show(Var("x")), stmt, Show(Num(9))>> : stmt \in Nested(MaxNest)}

\* f binds y, runs the statement under test and prints x.
Callee(stmt) == Function(<<"p">>, <<Let("y", Var("p")), stmt, Show(Var("x"))>>)

\* f is called at top level, in a while, in a for, and from a function g
\* whose parameter is called x.
CallAtTopLevel(stmt) ==
    Prologue \o <<Let("f", Callee(stmt)),
                  Let("r", FunctionCall(Var("f"), <<Num(5)>>)),
                  Show(Var("r")), Show(Var("x"))>>

CallInWhile(stmt) ==
    Prologue \o <<Let("f", Callee(stmt)),
                  Let("c", Num(0)),
                  WhileStatement(BinaryOp("<", Var("c"), Num(2)),
                      <<Let("c", Plus(Var("c"), Num(1))),
                        Let("r", FunctionCall(Var("f"), <<Var("c")>>)),
                        Show(Var("c"))>>),
                  Show(Var("x"))>>

CallInFor(stmt) ==
    Prologue \o <<Let("f", Callee(stmt)),
                  ForStatement("c", ListLiteral(<<Num(3), Num(4)>>),
                      <<Let("r", FunctionCall(Var("f"), <<Var("c")>>)),
                        Show(Var("c"))>>),
                  Show(Var("x"))>>

CallInFunction(stmt) ==
    Prologue \o <<Let("f", Callee(stmt)),
                  Let("g", Function(<<"x">>,
                      <<Let("r", FunctionCall(Var("f"), <<Var("x")>>)),
                        Show(Var("x")),
                        ReturnStatement(Var("r"))>>)),
                  Show(FunctionCall(Var("g"), <<Num(6)>>)),
                  Show(Var("x"))>>

\* A list of ListValues, a second name for it, one in-place operation applied
\* through the first name, the second name or a parameter of a callee, and
\* prints of both names.
ListValues ==
    { <<Num(3), Num(1), Num(2)>>, <<Num(5)>>, <<>>,
      <<StringLiteral(<<"b">>), StringLiteral(<<"a">>)>> }

Mutations(name) ==
    { Call("push", <<Var(name), Num(9)>>),
      Call("pop", <<Var(name)>>),
      Call("insert", <<Var(name), Num(1), Num(9)>>),
      Call("remove", <<Var(name), Num(0)>>),
      Call("sort", <<Var(name)>>) }

ListPrograms ==
    UNION {
        {<<Let("a", ListLiteral(elems)), Let("b", Var("a")), Do(mutation),
           Show(Var("a")), Show(Var("b"))>> : mutation \in Mutations("a") \cup Mutations("b")}
        \cup
        {<<Let("a", ListLiteral(elems)), Let("b", Var("a")),
           Let("f", Function(<<"p">>, <<Do(mutation)>>)),
           Do(FunctionCall(Var("f"), <<Var("a")>>)),
           Show(Var("a")), Show(Var("b"))>> : mutation \in Mutations("p")}
        : elems \in ListValues }

\* f of zero, one or two parameters, whose body prints 7 and rebinds x, is
\* called with zero, one or two arguments; an argument is a number or a call
\* of print.  print(9) follows.
ArityParameters == {<<>>, <<"p">>, <<"p", "q">>}
ArityArguments ==
    {<<>>, <<Num(3)>>, <<Call("print", <<Num(4)>>)>>, <<Num(3), Num(4)>>,
     <<Num(3), Call("print", <<Num(4)>>)>>}
ArityPrograms ==
    {<<Let("x", Num(1)),
       Let("f", Function(params, <<Show(Num(7)), Let("x", Num(2))>>)),
       Let("r", FunctionCall(Var("f"), args)),
       Show(Num(9))>> : params \in ArityParameters, args \in ArityArguments}

\* mk(p) binds loc and returns a function whose body reads the free name
\* `free`: p, loc or the global z.  After mk(7) has returned, `bound` (free or
\* the unrelated u) is bound to 9, and the function is called directly or
\* from h, whose parameter `param` (free or the unrelated w) is bound to 4.
FreeNames == {"p", "loc", "z"}
CapturePrograms ==
    {<<Let("z", Num(1)),
       Let("mk", Function(<<"p">>,
           <<Let("loc", Num(3)),
             ReturnStatement(Function(<<>>, <<ReturnStatement(Var(free))>>))>>)),
       Let("g", FunctionCall(Var("mk"), <<Num(7)>>)),
       Let(bound, Num(9)),
       Let("h", Function(<<param>>, <<ReturnStatement(FunctionCall(Var("g"), <<>>))>>)),
       Show(call)>> :
        <<free, bound, param, call>> \in
            {t \in FreeNames \X (FreeNames \cup {"u"}) \X (FreeNames \cup {"w"})
                   \X {FunctionCall(Var("g"), <<>>), FunctionCall(Var("h"), <<Num(4)>>)} :
                /\ t[2] \in {t[1], "u"}
                /\ t[3] \in {t[1], "w"}}}

\* x is bound to a string, a list of strings or a list of numbers, y to a
\* slice of x with each of start, end and step absent or present, and y and
\* then 9 are printed.
Str(chars) == StringLiteral(chars)
SliceTargets ==
    { Str(<<"a", "b", "c", "d">>),
      ListLiteral(<<Str(<<"a">>), Str(<<"b">>), Str(<<"c">>), Str(<<"d">>)>>),
      ListLiteral(<<Num(1), Num(2), Num(3)>>) }
SliceStarts == {NoNode, Integer(1), Integer(-3)}
SliceEnds == {NoNode, Integer(3), Integer(-1)}
SliceSteps == {NoNode, Integer(2), Integer(-1)}
SlicePrograms ==
    {<<Let("x", target), Let("y", SliceAccess(Var("x"), start, end, step)),
       Show(Var("y")), Show(Num(9))>> :
        target \in SliceTargets, start \in SliceStarts, end \in SliceEnds, step \in SliceSteps}

\* x is bound to a string, a list, or a value that is neither; y to x[i] for
\* i an integer around the bounds, a number that is not integral, or a value
\* that is not a number; y and then 9 are printed.
IndexTargets ==
    { Str(<<"a", "b", "c">>), Str(<<>>),
      ListLiteral(<<Num(10), Str(<<"b">>), Num(30)>>), ListLiteral(<<>>),
      Num(7), NilLiteral, Function(<<>>, <<ReturnStatement(Num(1))>>) }
IndexRange == -7..6
Indices ==
    {Integer(i) : i \in IndexRange}
    \cup {FractionLiteral(3, 2), UnaryOp("-", FractionLiteral(1, 2)), Str(<<"a">>), NilLiteral,
          ListLiteral(<<Num(0)>>)}
IndexPrograms ==
    {<<Let("x", target), Let("y", IndexAccess(Var("x"), index)), Show(Var("y")), Show(Num(9))>> :
        target \in IndexTargets, index \in Indices}

\* s = read(); print(s)   and   print(stacktrace())
ReadFunction ==
    [ast |-> <<Let("s", Call("read", <<>>)), Show(Var("s"))>>, expect |-> <<>>]
StackTraceFunction ==
    [ast |-> <<Show(Call("stacktrace", <<>>))>>, expect |-> <<"[", "]">>]

\* One literal of each runtime type.
Literals ==
    { Num(123), StringLiteral(<<"s">>), ListLiteral(<<Num(1), Num(2)>>), NilLiteral,
      Function(<<>>, <<ReturnStatement(Num(1))>>) }

\* a = <literal>; b = <literal>; c = a + b; print(239)
PlusPrograms ==
    {<<Let("a", l), Let("b", r), Let("c", Plus(Var("a"), Var("b"))), Show(Num(239))>> :
        l \in Literals, r \in Literals}

Eq(a, b) == BinaryOp("==", a, b)
Incr == Function(<<"value">>, <<ReturnStatement(Plus(Var("value"), Num(1)))>>)

\* Programs of src/bin/main.cpp and src/tests with the output the tests expect.
MainProgram ==
    [ast |-> <<Let("max", Function(<<"arr">>,
                   <<If(Eq(Call("len", <<Var("arr")>>), Num(0)), <<ReturnStatement(NilLiteral)>>),
                     Let("m", IndexAccess(Var("arr"), Num(0))),
                     ForStatement("i", Var("arr"),
                         <<If(BinaryOp(">", Var("i"), Var("m")), <<Let("m", Var("i"))>>)>>),
                     ReturnStatement(Var("m"))>>)),
               Show(FunctionCall(Var("max"),
                   <<ListLiteral(<<Num(10), UnaryOp("-", Num(1)), Num(0), Num(2), Num(2025),
                                   Num(239)>>)>>))>>,
     expect |-> <<"2", "0", "2", "5">>]

SimpleFunctionTest ==
    [ast |-> <<Let("incr", Incr), Let("x", FunctionCall(Var("incr"), <<Num(2)>>)),
               Show(Var("x"))>>,
     expect |-> <<"3">>]

FunctionAsArgTest ==
    [ast |-> <<Let("incr", Incr),
               Let("printresult", Function(<<"value", "func">>,
                   <<Let("result", FunctionCall(Var("func"), <<Var("value")>>)),
                     Show(Var("result"))>>)),
               Do(FunctionCall(Var("printresult"), <<Num(2), Var("incr")>>))>>,
     expect |-> <<"3">>]

NestedFunctionTest ==
    [ast |-> <<Let("incr_and_print", Function(<<"value">>,
                   <<Let("incr", Incr),
                     Show(FunctionCall(Var("incr"), <<Var("value")>>))>>)),
               Do(FunctionCall(Var("incr_and_print"), <<Num(2)>>))>>,
     expect |-> <<"3">>]

WhileLoopWithBreakAndContinue1 ==
    [ast |-> <<Let("i", Num(0)),
               WhileStatement(BinaryOp("<", Var("i"), Num(5)),
                   <<Let("i", Plus(Var("i"), Num(1))),
                     If(Eq(Var("i"), Num(2)), <<ContinueStatement>>),
                     If(Eq(Var("i"), Num(4)), <<BreakStatement>>),
                     Show(Var("i"))>>)>>,
     expect |-> <<"1", "3">>]

BreakInForLoop ==
    [ast |-> <<Let("sum", Num(0)),
               ForStatement("i", ListLiteral(<<Num(1), Num(2), Num(3), Num(4), Num(5)>>),
                   <<If(Eq(Var("i"), Num(3)), <<BreakStatement>>),
                     Let("sum", Plus(Var("sum"), Var("i")))>>),
               Show(Var("sum"))>>,
     expect |-> <<"3">>]

ContinueInForLoop ==
    [ast |-> <<Let("sum", Num(0)),
               ForStatement("i", ListLiteral(<<Num(1), Num(2), Num(3), Num(4), Num(5)>>),
                   <<If(Eq(BinaryOp("%", Var("i"), Num(2)), Num(0)), <<ContinueStatement>>),
                     Let("sum", Plus(Var("sum"), Var("i")))>>),
               Show(Var("sum"))>>,
     expect |-> <<"9">>]

SimpleLoop ==
    [ast |-> <<Let("a", Num(0)), Let("b", Num(1)), Let("n", Num(10)),
               ForStatement("i", Call("range", <<BinaryOp("-", Var("n"), Num(2))>>),
                   <<Let("c", Plus(Plus(Var("a"), Var("b")), Var("i"))), Show(Var("c"))>>)>>,
     expect |-> <<"1", "2", "3", "4", "5", "6", "7", "8">>]

\* A function that calls itself: the sum 3 + 2 + 1 + 0.
Recursion ==
    [ast |-> <<Let("sum", Function(<<"n">>,
                   <<If(Eq(Var("n"), Num(0)), <<ReturnStatement(Num(0))>>),
                     Let("rest", FunctionCall(Var("sum"),
                                              <<BinaryOp("-", Var("n"), Num(1))>>)),
                     ReturnStatement(Plus(Var("n"), Var("rest")))>>)),
               Let("n", Num(3)),
               Show(FunctionCall(Var("sum"), <<Var("n")>>)),
               Show(Var("n"))>>,
     expect |-> <<"6", "3">>]

Samples ==
    {MainProgram, SimpleFunctionTest, FunctionAsArgTest, NestedFunctionTest,
     WhileLoopWithBreakAndContinue1, BreakInForLoop, ContinueInForLoop, SimpleLoop, Recursion}

\* A source given as text: tokenize and parse make of it what they make.
TextSource(family, text, expect) ==
    [family |-> family, lex |-> "text", parse |-> "text", ast |-> <<>>, expect |-> expect,
     text |-> text]

\* FunctionTestSuite.FunnySyntaxTest: a list of three function definitions, one
\* per line, each followed by a comma; funcs[0](), funcs[1]() and funcs[2]()
\* are printed.
FunnySyntaxTestText ==
    <<"\n", " ", " ", " ", " ", " ", " ", " ", " ", "f", "u", "n", "c", "s", " ", "=", " ", "[",
      "\n", " ", " ", " ", " ", " ", " ", " ", " ", " ", " ", " ", " ", "f", "u", "n", "c", "t",
      "i", "o", "n", "(", ")", " ", "r", "e", "t", "u", "r", "n", " ", "1", " ", "e", "n", "d",
      " ", "f", "u", "n", "c", "t", "i", "o", "n", ",", "\n", " ", " ", " ", " ", " ", " ", " ",
      " ", " ", " ", " ", " ", "f", "u", "n", "c", "t", "i", "o", "n", "(", ")", " ", "r", "e",
      "t", "u", "r", "n", " ", "2", " ", "e", "n", "d", " ", "f", "u", "n", "c", "t", "i", "o",
      "n", ",", "\n", " ", " ", " ", " ", " ", " ", " ", " ", " ", " ", " ", " ", "f", "u", "n",
      "c", "t", "i", "o", "n", "(", ")", " ", "r", "e", "t", "u", "r", "n", " ", "3", " ", "e",
      "n", "d", " ", "f", "u", "n", "c", "t", "i", "o", "n", ",", "\n", " ", " ", " ", " ", " ",
      " ", " ", " ", "]", "\n", "\n", " ", " ", " ", " ", " ", " ", " ", " ", "p", "r", "i", "n",
      "t", "(", "f", "u", "n", "c", "s", "[", "0", "]", "(", ")", ")", "\n", " ", " ", " ", " ",
      " ", " ", " ", " ", "p", "r", "i", "n", "t", "(", "f", "u", "n", "c", "s", "[", "1", "]",
      "(", ")", ")", "\n", " ", " ", " ", " ", " ", " ", " ", " ", "p", "r", "i", "n", "t", "(",
      "f", "u", "n", "c", "s", "[", "2", "]", "(", ")", ")", "\n", " ", " ", " ", " ">>
FunnySyntaxTest == TextSource("lines", FunnySyntaxTestText, <<"1", "2", "3">>)

\* Texts in which a newline follows a comma of a list literal or of an
\* argument list: FunnySyntaxTest, a list of two numbers on two
\* lines, and a call whose two arguments are on two lines.
ListOverLines ==
    TextSource("lines", <<"l", " ", "=", " ", "[", "1", "0", ",", "\n", " ", "2", "0", "]", "\n",
                  "p", "r", "i", "n", "t", "(", "l", "[", "1", "]", ")", "\n">>,
               <<"2", "0">>)
ArgumentsOverLines ==
    TextSource("lines", <<"f", " ", "=", " ", "f", "u", "n", "c", "t", "i", "o", "n", "(", "a",
                  ",", " ", "b", ")", " ", "r", "e", "t", "u", "r", "n", " ", "b", " ", "e", "n",
                  "d", " ", "f", "u", "n", "c", "t", "i", "o", "n", "\n", "p", "r", "i", "n",
                  "t", "(", "f", "(", "1", ",", "\n", " ", "2", ")", ")", "\n">>,
               <<"2">>)
LinesAfterComma == {FunnySyntaxTest, ListOverLines, ArgumentsOverLines}

\* a is a list, w a list that holds a list, g returns a and n is a number.
\* One of the five in-place built-ins is then called with, as its first
\* argument, a list literal, w[0], g(), n, the unbound u or a; its value is
\* bound to r and print(9) follows.
FirstArguments ==
    { ListLiteral(<<Num(3), Num(1), Num(2)>>), IndexAccess(Var("w"), Num(0)),
      FunctionCall(Var("g"), <<>>), Var("n"), Var("u"), Var("a") }
InPlaceCalls(first) ==
    { Call("push", <<first, Num(9)>>),
      Call("pop", <<first>>),
      Call("insert", <<first, Num(1), Num(9)>>),
      Call("remove", <<first, Num(0)>>),
      Call("sort", <<first>>) }
ListArgumentPrograms ==
    {<<Let("a", ListLiteral(<<Num(3), Num(1), Num(2)>>)),
       Let("w", ListLiteral(<<ListLiteral(<<Num(3), Num(1), Num(2)>>)>>)),
       Let("g", Function(<<>>, <<ReturnStatement(Var("a"))>>)),
       Let("n", Num(5)),
       Let("r", call),
       Show(Num(9))>> : call \in UNION {InPlaceCalls(first) : first \in FirstArguments}}

\* x is bound to a number, a string, a list or nil; r = x op= v follows for
\* each of the six operators and a right-hand side v of each of those types,
\* then prints of x and r.
CompoundOperators == {"+", "-", "*", "/", "%", "^"}
CurrentValues == {Num(6), Str(<<"a", "b">>), ListLiteral(<<Num(1)>>), NilLiteral}
RightValues == {Num(2), Str(<<"b">>), ListLiteral(<<Num(1)>>), NilLiteral}
CompoundPrograms ==
    {<<Let("x", c), Let("r", Assignment("x", v, op \o "=")), Show(Var("x")), Show(Var("r"))>> :
        c \in CurrentValues, v \in RightValues, op \in CompoundOperators}

\* x = 6 and l is a list of strings; r is bound to a division or a modulo
\* (binary, or /= and %= on x), to sqrt(...), to range(0, 5, step) or to
\* l[0:2:step], whose divisor, argument or step is a literal or is computed
\* from x; print(9) follows.  In the second form the assignment is in the
\* body of f, before print(8), and f is called.
Divisors == {Num(0), BinaryOp("-", Var("x"), Var("x")), Num(2)}
SqrtArguments ==
    {Integer(-1), UnaryOp("-", FractionLiteral(1, 2)), BinaryOp("-", Var("x"), Num(7)),
     Num(4), Num(0)}
Steps == {Num(0), BinaryOp("-", Var("x"), Var("x")), Num(1)}
ZeroExpressions ==
    {BinaryOp(op, Var("x"), d) : op \in {"/", "%"}, d \in Divisors}
    \cup {Assignment("x", d, op) : op \in {"/=", "%="}, d \in Divisors}
    \cup {Call("sqrt", <<a>>) : a \in SqrtArguments}
    \cup {Call("range", <<Num(0), Num(5), step>>) : step \in Steps}
    \cup {SliceAccess(Var("l"), Num(0), Num(2), step) : step \in Steps}
ZeroPrograms ==
    {<<Let("x", Num(6)), Let("l", ListLiteral(<<Str(<<"a">>), Str(<<"b">>), Str(<<"c">>)>>)),
       Let("r", e), Show(Num(9))>> : e \in ZeroExpressions}
    \cup
    {<<Let("x", Num(6)), Let("l", ListLiteral(<<Str(<<"a">>), Str(<<"b">>), Str(<<"c">>)>>)),
       Let("f", Function(<<>>, <<Let("r", e), Show(Num(8))>>)),
       Do(FunctionCall(Var("f"), <<>>)), Show(Num(9))>> : e \in ZeroExpressions}

\* l is a list; the name of a built-in is bound to a user function that
\* prints 7 and returns 7, or to 5; r is bound to a call of that name and
\* print(9) follows.
BuiltinCalls ==
    { Call("print", <<Str(<<"p">>)>>), Call("println", <<Str(<<"p">>)>>),
      Call("len", <<Var("l")>>), Call("range", <<Num(2)>>), Call("sqrt", <<Num(4)>>) }
    \cup Mutations("l")
BuiltinCallPrograms ==
    {<<Let("l", ListLiteral(<<Num(3), Num(1), Num(2)>>)),
       Let(call.callee.name, v),
       Let("r", call),
       Show(Num(9))>> :
        call \in BuiltinCalls,
        v \in {Num(5)} \cup
              {Function(SubSeq(<<"a", "b", "c">>, 1, n), <<Show(Num(7)), ReturnStatement(Num(7))>>) :
                  n \in 1..3}}

\* The name of a built-in, or the ordinary name foo, is read as a bare
\* expression: y = name, unbound or after name = 5, or f(name); print(9)
\* follows.
BareNames == BuiltinNames \cup {"foo"}
BuiltinNamePrograms ==
    UNION {{ <<Let("y", Var(name)), Show(Num(9))>>,
             <<Let(name, Num(5)), Let("y", Var(name)), Show(Num(9))>>,
             <<Let(name, Num(5)),
               Let("f", Function(<<"a">>, <<Show(Num(7))>>)),
               Let("y", FunctionCall(Var("f"), <<Var(name)>>)),
               Show(Num(9))>> } : name \in BareNames}

\* A list of SortLists bound to a and b, sorted through one of the names and
\* printed through both, then sorted again and printed.
SortLists ==
    { <<Num(3), Num(1), Num(2)>>, <<Num(1), Num(2), Num(3)>>,
      <<Num(2), Integer(0 - 1), Num(2), Num(0)>>, <<Num(5)>>, <<>>,
      <<Str(<<"b">>), Str(<<"a">>)>>,
      <<Str(<<"a", "b">>), Str(<<"a">>), Str(<<"B">>), Str(<<>>)>>,
      <<Num(1), Str(<<"a">>)>>, <<Str(<<"a">>), Num(1)>>, <<Num(2), Num(1), NilLiteral>>,
      <<NilLiteral, Num(1)>>, <<NilLiteral>>, <<ListLiteral(<<Num(1)>>), Num(1)>>,
      <<Str(<<"a">>), ListLiteral(<<>>)>> }

SortPrograms ==
    {<<Let("a", ListLiteral(elems)), Let("b", Var("a")),
       Let("r", Call("sort", <<Var(name)>>)),
       Show(Var("a")), Show(Var("b")), Show(Var("r")),
       Let("q", Call("sort", <<Var("a")>>)), Show(Var("a"))>> :
         elems \in SortLists, name \in {"a", "b"}}

\* A list of PositionLists bound to a and b; one of insert(a, i, 9),
\* remove(a, i) and pop(a), for i of Positions, whose value is bound to r;
\* prints of the list, of r and of the length through b.
PositionLists == { <<>>, <<Num(5)>>, <<Num(3), Str(<<"s">>), Num(2)>> }
Positions ==
    { Integer(0 - 1), Num(0), Num(1), Num(2), Num(3), Num(4), FractionLiteral(3, 2),
      Str(<<"1">>), NilLiteral }
PositionCalls ==
    {Call("insert", <<Var("a"), i, Num(9)>>) : i \in Positions}
    \cup {Call("remove", <<Var("a"), i>>) : i \in Positions}
    \cup {Call("pop", <<Var("a")>>)}
PositionPrograms ==
    {<<Let("a", ListLiteral(elems)), Let("b", Var("a")), Let("r", call),
       Show(Var("a")), Show(Var("r")), Show(Call("len", <<Var("b")>>))>> :
         elems \in PositionLists, call \in PositionCalls}

\* r = range(...) of one, two or three arguments; q = range(...) of the
\* same, and a push to q; prints of r and of its length.
RangeNumbers == {Integer(0 - 2), Num(0), Num(1), Num(3)}
RangeSteps == {Integer(0 - 2), Integer(0 - 1), Num(1), Num(2)}
RangeArguments ==
    {<<stop>> : stop \in RangeNumbers}
    \cup {<<start, stop>> : start \in RangeNumbers, stop \in RangeNumbers}
    \cup {<<start, stop, step>> :
             start \in RangeNumbers, stop \in RangeNumbers, step \in RangeSteps}
    \cup {<<Str(<<"3">>)>>, <<Num(0), NilLiteral>>, <<Num(0), Num(3), ListLiteral(<<>>)>>}
RangePrograms ==
    {<<Let("r", Call("range", args)), Let("q", Call("range", args)),
       Do(Call("push", <<Var("q"), Num(9)>>)),
       Show(Var("r")), Show(Call("len", <<Var("r")>>))>> : args \in RangeArguments}

\* The four compound forms, each with the line that opens it; the body of
\* each is print(2), and the body of while ends with c = 1.
CompoundKeywords == {"if", "while", "for", "function"}
KeywordText(word) ==
    CASE word = "if" -> <<"i", "f">>
      [] word = "while" -> <<"w", "h", "i", "l", "e">>
      [] word = "for" -> <<"f", "o", "r">>
      [] word = "function" -> <<"f", "u", "n", "c", "t", "i", "o", "n">>
      [] word = "end" -> <<"e", "n", "d">>
OpenerText(word) ==
    CASE word = "if" -> <<"i", "f", " ", "1", " ", "t", "h", "e", "n">>
      [] word = "while" -> <<"c", " ", "=", " ", "0", "\n", "w", "h", "i", "l", "e", " ", "c", " ", "<", " ", "1">>
      [] word = "for" -> <<"f", "o", "r", " ", "i", " ", "i", "n", " ", "[", "7", "]">>
      [] word = "function" ->
          <<"f", " ", "=", " ", "f", "u", "n", "c", "t", "i", "o", "n", "(", ")">>
PrintDigit(d) == <<"p", "r", "i", "n", "t", "(", d, ")">>

\* What follows the body: nothing, end alone, or end and a keyword.
Closers == {<<>>, <<"end">>} \cup {<<"end", word>> : word \in CompoundKeywords}
RECURSIVE CloserText(_)
CloserText(closer) ==
    IF closer = <<>> THEN <<>>
    ELSE KeywordText(closer[1])
         \o (IF Len(closer) > 1 THEN <<" ">> ELSE <<>>) \o CloserText(Tail(closer))

\* print(1), the compound form of the keyword word with closer after its
\* body, and print(3), one per line; a function is bound to f, which the
\* last line calls.
ClosedText(word, closer) ==
    PrintDigit("1") \o <<"\n">> \o OpenerText(word) \o <<"\n">>
    \o PrintDigit("2") \o <<"\n">> \o (IF word = "while" THEN <<"c", " ", "=", " ", "1", "\n">> ELSE <<>>)
    \o CloserText(closer) \o <<"\n">> \o PrintDigit("3") \o <<"\n">>
    \o (IF word = "function" THEN <<"f", "(", ")", "\n">> ELSE <<>>)
ClosedForm(word, closer) == TextSource("closer", ClosedText(word, closer), <<>>)
ClosedForms == {ClosedForm(word, closer) : word \in CompoundKeywords, closer \in Closers}

\* a is an empty list, f pushes 4 to a and returns its argument, and x is 0;
\* r = left op right for op of and, or, where left is a literal of either
\* truthiness, an assignment to x or a print, and right is an assignment
\* to x, a print or a call of f; r, x and len(a) are then printed.
LogicalOperators == {"and", "or"}
LeftOperands ==
    { Num(0), Num(1), NilLiteral, Str(<<>>), Str(<<"s">>), ListLiteral(<<>>),
      ListLiteral(<<Num(0)>>), Assignment("x", Num(1), "="), Call("print", <<Num(5)>>) }
RightOperands ==
    UNION { { Assignment("x", v, "="), Call("print", <<v>>), Call("f", <<v>>) } :
              v \in {Num(0), Num(2)} }
LogicalProgram(op, left, right) ==
    <<Let("a", ListLiteral(<<>>)),
      Let("f", Function(<<"p">>, <<Do(Call("push", <<Var("a"), Num(4)>>)),
                                   ReturnStatement(Var("p"))>>)),
      Let("x", Num(0)),
      Let("r", BinaryOp(op, left, right)),
      Show(Var("r")), Show(Var("x")), Show(Call("len", <<Var("a")>>))>>
LogicalPrograms ==
    {LogicalProgram(op, left, right) :
         op \in LogicalOperators, left \in LeftOperands, right \in RightOperands}

\* The statement kinds, each as a text up to the end of a statement of the
\* kind, the text that follows it, and what the program writes when an end
\* of line stands between the two.
StatementKinds == {"expression", "return", "break", "continue", "if", "while", "for"}
StatementText(kind) ==
    CASE kind = "expression" ->
           <<"p", "r", "i", "n", "t", "(", "1", ")">>
      [] kind = "return" ->
           <<"f", " ", "=", " ", "f", "u", "n", "c", "t", "i", "o", "n", "(", ")", "\n", "r",
             "e", "t", "u", "r", "n", " ", "7">>
      [] kind = "break" ->
           <<"w", "h", "i", "l", "e", " ", "1", "\n", "b", "r", "e", "a", "k">>
      [] kind = "continue" ->
           <<"f", "o", "r", " ", "i", " ", "i", "n", " ", "[", "1", "]", "\n", "c", "o", "n",
             "t", "i", "n", "u", "e">>
      [] kind = "if" ->
           <<"i", "f", " ", "1", " ", "t", "h", "e", "n", "\n", "p", "r", "i", "n", "t", "(",
             "1", ")", "\n", "e", "n", "d", " ", "i", "f">>
      [] kind = "while" ->
           <<"w", "h", "i", "l", "e", " ", "0", "\n", "e", "n", "d", " ", "w", "h", "i", "l",
             "e">>
      [] kind = "for" ->
           <<"f", "o", "r", " ", "i", " ", "i", "n", " ", "[", "1", "]", "\n", "p", "r", "i",
             "n", "t", "(", "i", ")", "\n", "e", "n", "d", " ", "f", "o", "r">>
TextAfterStatement(kind) ==
    CASE kind = "expression" ->
           <<"p", "r", "i", "n", "t", "(", "2", ")", "\n">>
      [] kind = "return" ->
           <<"e", "n", "d", " ", "f", "u", "n", "c", "t", "i", "o", "n", "\n", "p", "r", "i",
             "n", "t", "(", "f", "(", ")", ")", "\n">>
      [] kind = "break" ->
           <<"e", "n", "d", " ", "w", "h", "i", "l", "e", "\n", "p", "r", "i", "n", "t", "(",
             "3", ")", "\n">>
      [] kind = "continue" ->
           <<"e", "n", "d", " ", "f", "o", "r", "\n", "p", "r", "i", "n", "t", "(", "3", ")",
             "\n">>
      [] kind = "if" ->
           <<"p", "r", "i", "n", "t", "(", "2", ")", "\n">>
      [] kind = "while" ->
           <<"p", "r", "i", "n", "t", "(", "2", ")", "\n">>
      [] kind = "for" ->
           <<"p", "r", "i", "n", "t", "(", "2", ")", "\n">>
WrittenWithEndOfLine(kind) ==
    CASE kind = "expression" -> <<"1", "2">>
      [] kind = "return" -> <<"7">>
      [] kind = "break" -> <<"3">>
      [] kind = "continue" -> <<"3">>
      [] kind = "if" -> <<"1", "2">>
      [] kind = "while" -> <<"2">>
      [] kind = "for" -> <<"1", "2">>

\* What ends the statement: an end of line, or a semicolon followed by a
\* space or by an end of line.
Terminators == {<<"\n">>, <<";", " ">>, <<";", "\n">>}
TerminatedStatement(kind, terminator) ==
    TextSource("terminator", StatementText(kind) \o terminator \o TextAfterStatement(kind),
               WrittenWithEndOfLine(kind))
TerminatedStatements ==
    {TerminatedStatement(kind, terminator) : kind \in StatementKinds, terminator \in Terminators}

\* Lexemes of the form [A-Za-z_][A-Za-z0-9_]* that are not reserved words:
\* with and without underscores, and with an underscore in the first place.
IdentifierNames ==
    { <<"x">>, <<"a", "_", "b">>, <<"X", "1", "_">>, <<"e", "n", "d", "_">>, <<"i", "f", "f">>,
      <<"_">>, <<"_", "x">>, <<"_", "1">>, <<"_", "_", "a">>, <<"_", "i", "f">> }

\* name = 1 and print(name), one per line.
NamedText(name) ==
    name \o <<" ", "=", " ", "1", "\n", "p", "r", "i", "n", "t", "(">> \o name \o <<")", "\n">>
NamedTexts == {TextSource("identifier", NamedText(name), <<"1">>) : name \in IdentifierNames}

\* a is an empty list, f returns its parameter, g prints the variable name
\* and x is 1; r is bound to a call whose argument is the assignment
\* name = v: of f, of g, or of the built-ins print, push, sqrt and len; r and
\* then the variable name are printed. name is x or the unbound y.
AssignedNames == {"x", "y"}
AssignedValues == {Num(4), Str(<<"a", "b">>)}
UserCallees == {"f", "g"}
CallsWithArgument(arg) ==
    { Call("f", <<arg>>), Call("g", <<arg>>), Call("print", <<arg>>),
      Call("push", <<Var("a"), arg>>),
      Call(IF arg.value.kind = "NumberLiteral" THEN "sqrt" ELSE "len", <<arg>>) }
ArgumentProgram(name, call) ==
    <<Let("a", ListLiteral(<<>>)),
      Let("f", Function(<<"p">>, <<ReturnStatement(Var("p"))>>)),
      Let("g", Function(<<"p">>, <<Show(Var(name))>>)),
      Let("x", Num(1)),
      Let("r", call),
      Show(Var("r")), Show(Var(name))>>
ArgumentPrograms ==
    UNION { {ArgumentProgram(name, call) : call \in CallsWithArgument(Assignment(name, v, "="))} :
              name \in AssignedNames, v \in AssignedValues }

\* Lines the lexer rejects and lines the parser rejects.
LexicalErrorLines ==
    { <<"@">>,
      <<"x", " ", "=", " ", "1", " ", "!", " ", "2">>,
      <<"y", " ", "=", " ", "$">> }
SyntaxErrorLines ==
    { <<"x", " ", "=">>,
      <<"(", "1">>,
      <<"1", " ", "+">>,
      <<"]">>,
      <<"i", "f", " ", "1">>,
      <<"f", "(">>,
      <<"e", "n", "d">> }

\* n lines print(1), a line of the two sets above, and then print(9) or nothing.
RECURSIVE PrintLines(_)
PrintLines(n) ==
    IF n = 0 THEN <<>> ELSE PrintDigit("1") \o <<"\n">> \o PrintLines(n - 1)
MaxValidLines == 3
LateErrorText(n, line, last) ==
    PrintLines(n) \o line \o <<"\n">> \o (IF last THEN PrintDigit("9") \o <<"\n">> ELSE <<>>)
LateErrors ==
    {TextSource("late", LateErrorText(n, line, last), <<>>) :
         n \in 0..MaxValidLines, line \in LexicalErrorLines \cup SyntaxErrorLines,
         last \in BOOLEAN}

\* x is a list and y the same list; z is bound to x += [v], x + [v],
\* x = x + [v], x += x, x + y or push(x, v); x, y and z are printed, 7 is
\* pushed to y, and the three are printed again.
ConcatenatedLists == {<<>>, <<Num(1)>>, <<Num(1), Str(<<"s">>)>>}
ConcatenatedValues == {Num(2), Str(<<"t">>)}
Concatenations(v) ==
    { Assignment("x", ListLiteral(<<v>>), "+="),
      Plus(Var("x"), ListLiteral(<<v>>)),
      Assignment("x", Plus(Var("x"), ListLiteral(<<v>>)), "="),
      Assignment("x", Var("x"), "+="),
      Plus(Var("x"), Var("y")) }
ConcatenationProgram(elems, e) ==
    <<Let("x", ListLiteral(elems)), Let("y", Var("x")), Let("z", e),
      Show(Var("x")), Show(Var("y")), Show(Var("z")),
      Do(Call("push", <<Var("y"), Num(7)>>)),
      Show(Var("x")), Show(Var("y")), Show(Var("z"))>>
ConcatenationPrograms ==
    UNION { {ConcatenationProgram(elems, e) :
                 e \in Concatenations(v) \cup {Call("push", <<Var("x"), v>>)}} :
              elems \in ConcatenatedLists, v \in ConcatenatedValues }

\* A text the lexer rejects (`!` alone, an unknown character), a text the
\* parser rejects, a numeric literal std::stod rejects, and the texts that
\* parse.
Sources ==
    {[family |-> "lexer", lex |-> "runtime_error", parse |-> "ok", ast |-> <<>>,
      expect |-> <<>>],
     [family |-> "parser", lex |-> "ok", parse |-> "runtime_error", ast |-> <<>>,
      expect |-> <<>>],
     [family |-> "parser", lex |-> "ok", parse |-> "out_of_range", ast |-> <<>>,
      expect |-> <<>>]}
    \cup {[family |-> "sample", lex |-> "ok", parse |-> "ok", ast |-> p.ast,
           expect |-> p.expect] : p \in Samples}
    \cup {[family |-> "top", lex |-> "ok", parse |-> "ok", ast |-> p, expect |-> <<>>] :
             p \in TopLevelPrograms}
    \cup {[family |-> "call", lex |-> "ok", parse |-> "ok", ast |-> CallAtTopLevel(stmt),
           expect |-> <<>>] : stmt \in Nested(MaxNest)}
    \cup {[family |-> "callInWhile", lex |-> "ok", parse |-> "ok", ast |-> CallInWhile(stmt),
           expect |-> <<>>] : stmt \in Nested(MaxNest)}
    \cup {[family |-> "callInFor", lex |-> "ok", parse |-> "ok", ast |-> CallInFor(stmt),
           expect |-> <<>>] : stmt \in Nested(MaxNest)}
    \cup {[family |-> "callInFunction", lex |-> "ok", parse |-> "ok",
           ast |-> CallInFunction(stmt), expect |-> <<>>] : stmt \in Nested(MaxNest)}
    \cup {[family |-> "list", lex |-> "ok", parse |-> "ok", ast |-> p, expect |-> <<>>] :
             p \in ListPrograms}
    \cup {[family |-> "plus", lex |-> "ok", parse |-> "ok", ast |-> p, expect |-> <<>>] :
             p \in PlusPrograms}
    \cup {[family |-> "arity", lex |-> "ok", parse |-> "ok", ast |-> p, expect |-> <<>>] :
             p \in ArityPrograms}
    \cup {[family |-> "capture", lex |-> "ok", parse |-> "ok", ast |-> p, expect |-> <<>>] :
             p \in CapturePrograms}
    \cup {[family |-> "system", lex |-> "ok", parse |-> "ok", ast |-> p.ast,
           expect |-> p.expect] : p \in {ReadFunction, StackTraceFunction}}
    \cup {[family |-> "slice", lex |-> "ok", parse |-> "ok", ast |-> p, expect |-> <<>>] :
             p \in SlicePrograms}
    \cup {[family |-> "index", lex |-> "ok", parse |-> "ok", ast |-> p, expect |-> <<>>] :
             p \in IndexPrograms}
    \cup {[family |-> "listArgument", lex |-> "ok", parse |-> "ok", ast |-> p,
           expect |-> <<>>] : p \in ListArgumentPrograms}
    \cup {[family |-> "compound", lex |-> "ok", parse |-> "ok", ast |-> p,
           expect |-> <<>>] : p \in CompoundPrograms}
    \cup {[family |-> "zero", lex |-> "ok", parse |-> "ok", ast |-> p,
           expect |-> <<>>] : p \in ZeroPrograms}
    \cup {[family |-> "builtinCall", lex |-> "ok", parse |-> "ok", ast |-> p,
           expect |-> <<>>] : p \in BuiltinCallPrograms}
    \cup {[family |-> "builtinName", lex |-> "ok", parse |-> "ok", ast |-> p,
           expect |-> <<>>] : p \in BuiltinNamePrograms}
    \cup {[family |-> "sort", lex |-> "ok", parse |-> "ok", ast |-> p,
           expect |-> <<>>] : p \in SortPrograms}
    \cup {[family |-> "position", lex |-> "ok", parse |-> "ok", ast |-> p,
           expect |-> <<>>] : p \in PositionPrograms}
    \cup {[family |-> "range", lex |-> "ok", parse |-> "ok", ast |-> p,
           expect |-> <<>>] : p \in RangePrograms}
    \cup {[family |-> "logical", lex |-> "ok", parse |-> "ok", ast |-> p,
           expect |-> <<>>] : p \in LogicalPrograms}
    \cup {[family |-> "argument", lex |-> "ok", parse |-> "ok", ast |-> p,
           expect |-> <<>>] : p \in ArgumentPrograms}
    \cup {[family |-> "concatenation", lex |-> "ok", parse |-> "ok", ast |-> p,
           expect |-> <<>>] : p \in ConcatenationPrograms}
    \cup ClosedForms
    \cup TerminatedStatements
    \cup NamedTexts
    \cup LateErrors
    \cup LinesAfterComma

---------------------------------------------------------------------------
(* The state machine. *)

Init ==
    /\ pc = "lex"
    /\ source \in Sources
    /\ tokens = <<>>
    /\ program = <<>>
    /\ ip = 1
    /\ globals = <<>>
    /\ heap = <<>>
    /\ output = <<>>
    /\ trace = <<>>
    /\ thrown = NoException
    /\ result = "none"

Next ==
    \/ Tokenize
    \/ Parse
    \/ ExecuteStatement
    \/ ReturnTrue
    \/ CatchReturnValue
    \/ CatchRuntimeError
    \/ CatchException
    \/ Escape

Spec == Init /\ [][Next]_vars

\* The characters written by print and println, in order.
RECURSIVE Text(_)
Text(out) ==
    IF out = <<>> THEN <<>>
    ELSE (IF out[1].k = "text" THEN out[1].chars ELSE <<>>) \o Text(Tail(out))

SamplesAsExpected ==
    (source.family = "sample" /\ pc = "done") => (result = "true" /\ Text(output) = source.expect)

\* The bounds MaxIter and MaxDepth are not met by the inputs.
NoModelLimit == thrown.type \notin {"diverge", "stack_overflow", "undefined"}

---------------------------------------------------------------------------
(* Properties. *)

HasDiagnostic(out) ==
    \E i \in DOMAIN out : out[i].k = "diag" /\ out[i].lit \in {SpecificPrefix, GenericPrefix}

\* Lexing, parsing and evaluation have all completed without an error (a
\* return at top level ends evaluation without one).
Lexes ==
    IF GivenAsText THEN Bind(tokenize(source.text), LAMBDA l : l.err = "")
    ELSE source.lex = "ok"
Parses ==
    /\ Lexes
    /\ IF GivenAsText
       THEN Bind(tokenize(source.text), LAMBDA l : parse(l.tokens).err = "")
       ELSE source.parse = "ok"

CompletedWithoutError ==
    /\ pc = "done"
    /\ Lexes
    /\ Parses
    /\ \/ ip > Len(program) /\ thrown.type = "none"
       \/ thrown.type = "ReturnValue"

\* C1: interpret returns true exactly when lexing, parsing and evaluation all
\* complete without error, and whenever it returns false a message beginning
\* with one of the two prefixes has been written to the output.
InterpretReportsOutcome ==
    /\ (result = "true") <=> CompletedWithoutError
    /\ (result = "false") => HasDiagnostic(output)

\* interpret has returned false for an error of the evaluation.
InterpretReturnedFalse ==
    /\ result = "false"
    /\ thrown.type = "runtime_error"
    /\ Parses
    /\ HasDiagnostic(output)

Exits(hows) == {i \in DOMAIN trace : trace[i].ev = "exit" /\ trace[i].how \in hows}

\* C2: when a call of a user-defined function completes, by the end of the
\* body or by a return, the environment is what it was at call entry, for
\* nested and recursive calls too: a caller's variable named like a callee's
\* parameter has its own value again (the programs that call f print x = 1
\* last, the recursive sum prints its own n).
CallRestoresEnvironment ==
    /\ \A i \in Exits({"end", "return"}) : trace[i].after = trace[i].snapshot
    /\ (source.family \in {"call", "callInWhile", "callInFor", "callInFunction"}
        /\ result = "true")
           => output[Len(output)] = [k |-> "text", chars |-> <<"1">>]
    /\ (source.ast \in {NestedFunctionTest.ast, Recursion.ast} /\ pc = "done")
           => Text(output) = source.expect

\* A call made inside another call has returned, and its body had rebound a
\* name that the caller binds as well.
NestedCallRestored ==
    \E i \in Exits({"return"}) :
        /\ trace[i].caller # 0
        /\ \E name \in DOMAIN trace[i].snapshot :
               trace[i].inner[name] # trace[i].snapshot[name]
        /\ trace[i].after = trace[i].snapshot

\* C3: a break or continue is caught only by a loop of the function in which
\* it appears: the loop that catches a signal runs in the call instance that
\* raised it.
SignalCaughtInItsFunction ==
    \A i \in DOMAIN trace : trace[i].ev = "catch" => trace[i].from = trace[i].at

\* C4: a break or continue with no enclosing loop at all is a runtime error:
\* interpret returns false and a diagnostic has been written.
UncaughtSignalIsRuntimeError ==
    (pc = "done" /\ thrown.type \in {"BreakSignal", "ContinueSignal"})
        => (result = "false" /\ HasDiagnostic(output))

\* C5: the snapshot taken at call entry is restored also when the body is
\* left by a break or continue that no loop of the body catches.
SignalExitRestoresEnvironment ==
    \A i \in Exits({"BreakSignal", "ContinueSignal"}) : trace[i].after = trace[i].snapshot

Raises(sigs) == {i \in DOMAIN trace : trace[i].ev = "raise" /\ trace[i].sig \in sigs}

ExitEvents == {i \in DOMAIN trace : trace[i].ev = "exit"}
FirstExit == CHOOSE i \in ExitEvents : \A j \in ExitEvents : i <= j

EndsWith(seq, suffix) ==
    /\ Len(suffix) <= Len(seq)
    /\ SubSeq(seq, Len(seq) - Len(suffix) + 1, Len(seq)) = suffix

\* C6: a return inside any nesting of if, while and for in a function body
\* ends the call at once (the next thing that happens is the exit of that
\* call, with nothing written in between), the call yields the returned
\* value, Nil for a bare return and for a body that runs to its end, and the
\* caller goes on after the call: it prints the value of the call and then x.
ReturnEndsCall ==
    /\ \A i \in Raises({"ReturnValue"}) :
           trace[i].at # 0 =>
               /\ i < Len(trace)
               /\ trace[i + 1].ev = "exit"
               /\ trace[i + 1].id = trace[i].at
               /\ trace[i + 1].how = "return"
               /\ trace[i + 1].val = trace[i].val
               /\ trace[i + 1].out = trace[i].out
    /\ \A i \in Exits({"end"}) : trace[i].val = NilV
    /\ (source.family \in {"call", "callInFunction"} /\ pc = "done" /\ ExitEvents # {})
           => (trace[FirstExit].how \in {"end", "return"}
                  => /\ result = "true"
                     /\ EndsWith(Text(output),
                                 Printed(trace[FirstExit].val, heap) \o <<"1">>))
    /\ (source.ast = MainProgram.ast /\ pc = "done") => Text(output) = source.expect

\* A return was executed under two nested loops of a function body and the
\* program has run to its end.
ReturnedFromNestedLoops ==
    /\ pc = "done"
    /\ \E i \in Raises({"ReturnValue"}) :
           trace[i].at # 0 /\ Len(trace[i].loops) = 2 /\ trace[i].val # NilV

\* C7: a return at top level ends the program successfully: nothing is
\* executed after it, interpret returns true, no diagnostic is written and
\* the output written before the return is the output.
TopLevelReturnEndsProgram ==
    \A i \in Raises({"ReturnValue"}) :
        trace[i].at = 0 =>
            /\ i = Len(trace)
            /\ ip < Len(program)
            /\ output = trace[i].out
            /\ ~HasDiagnostic(output)
            /\ pc \in {"thrown", "done"}
            /\ pc = "done" => result = "true"

\* interpret has returned after a return at top level, with output written.
TopLevelReturned ==
    /\ pc = "done"
    /\ output # <<>>
    /\ \E i \in Raises({"ReturnValue"}) : trace[i].at = 0

Innermost(i) == trace[i].loops[Len(trace[i].loops)]

\* C8: a break or continue under a loop of its function is caught by the
\* innermost such loop; after a break that loop ends and the enclosing loop,
\* if there is one, goes on with its next statement or its next iteration;
\* after a continue the loop is at its head again (a while evaluates its
\* condition, a for takes the next element).  The loop tests print what
\* they expect.
SignalEndsInnermostLoop ==
    /\ \A i \in Raises({"BreakSignal", "ContinueSignal"}) :
           trace[i].loops # <<>> =>
               /\ i + 2 <= Len(trace)
               /\ trace[i + 1] = [ev |-> "catch", sig |-> trace[i].sig, by |-> Innermost(i),
                                  at |-> trace[i].at, from |-> trace[i].at]
               /\ trace[i + 2] = IF trace[i].sig = "BreakSignal"
                                 THEN [ev |-> "endloop", loop |-> Innermost(i)]
                                 ELSE [ev |-> "iter", loop |-> Innermost(i)]
               /\ (trace[i].sig = "BreakSignal" /\ Len(trace[i].loops) >= 2) =>
                      /\ i + 3 <= Len(trace)
                      /\ \/ trace[i + 3].ev = "stmt" /\ trace[i + 3].at = trace[i].at
                         \/ trace[i + 3] =
                                [ev |-> "iter", loop |-> trace[i].loops[Len(trace[i].loops) - 1]]
    /\ (source.ast \in {WhileLoopWithBreakAndContinue1.ast, BreakInForLoop.ast,
                        ContinueInForLoop.ast} /\ pc = "done")
           => (result = "true" /\ Text(output) = source.expect)

\* A break was executed under two nested loops, more than once, and the
\* program has run to its end.
BrokeUnderNestedLoops ==
    /\ pc = "done"
    /\ \E i, j \in Raises({"BreakSignal"}) :
           i < j /\ Len(trace[i].loops) = 2 /\ Len(trace[j].loops) = 2

\* In a program of ListPrograms: the list a and b are bound to at first, the
\* in-place operation applied, and whether it is applied in a callee.
LiteralValue(node) ==
    IF node.kind = "NumberLiteral" THEN NumberV(node.value) ELSE StringV(node.value)
ListBefore ==
    [i \in DOMAIN source.ast[1].expression.value.elements |->
        LiteralValue(source.ast[1].expression.value.elements[i])]
ThroughCallee == source.ast[3].expression.kind = "Assignment"
Mutation ==
    IF ThroughCallee THEN source.ast[3].expression.value.body.statements[1].expression
    ELSE source.ast[3].expression

Occurrences(seq, v) == Cardinality({i \in DOMAIN seq : seq[i] = v})

\* What the operation fn of Mutations makes of the list before.
Mutated(fn, before, after) ==
    CASE fn = "push" -> after = Append(before, NumberV(9))
      [] fn = "pop" -> after = SubSeq(before, 1, Len(before) - 1)
      [] fn = "insert" ->
           after = SubSeq(before, 1, 1) \o <<NumberV(9)>> \o SubSeq(before, 2, Len(before))
      [] fn = "remove" -> after = Tail(before)
      [] fn = "sort" ->
           /\ Len(after) = Len(before)
           /\ \A i \in DOMAIN before : Occurrences(after, before[i]) = Occurrences(before, before[i])
           /\ \A i, j \in DOMAIN after : i < j => ~SortLess(after[j], after[i])

\* C9: a list is shared by reference: after b = a, an operation of push, pop,
\* insert, remove, sort applied through a, through b, or through the
\* parameter of a callee that got a, is seen through both names: print(a)
\* and print(b), which follow it, both write the list as the operation left
\* it, also when the call has restored its snapshot.
ListSharedByReference ==
    (source.family = "list" /\ result = "true") =>
        /\ globals["a"].t = "List"
        /\ Mutated(Mutation.callee.name, ListBefore, heap[globals["a"].ref])
        /\ output = <<[k |-> "text", chars |-> toString(globals["a"], heap)],
                      [k |-> "text", chars |-> toString(globals["a"], heap)]>>
        /\ ThroughCallee => \E i \in Exits({"end"}) : trace[i].after = trace[i].snapshot

\* A callee has sorted, through its parameter, a list that was not in order.
CalleeSortedSharedList ==
    /\ source.family = "list"
    /\ result = "true"
    /\ ThroughCallee
    /\ Mutation.callee.name = "sort"
    /\ heap[globals["a"].ref] # ListBefore

\* The runtime type of the literal a program of PlusPrograms binds first and second.
LiteralType(node) ==
    CASE node.kind = "NumberLiteral" -> "Number"
      [] node.kind = "StringLiteral" -> "String"
      [] node.kind = "ListLiteral" -> "List"
      [] node.kind = "NilLiteral" -> "Nil"
      [] node.kind = "FunctionDefinition" -> "Function"
OperandTypes ==
    <<LiteralType(source.ast[1].expression.value), LiteralType(source.ast[2].expression.value)>>

Wrote239 == \E i \in DOMAIN output : output[i] = [k |-> "text", chars |-> <<"2", "3", "9">>]

\* C10: for a and b of the types Number, String, List, Function, Nil,
\* c = a + b succeeds iff both are Numbers, both Strings or both Lists (c is
\* then bound to a value of that type and the print that follows writes
\* 239); for every other pair interpret returns false, the statement after
\* the failing one is not executed and 239 is not written.
PlusOnMatchingTypesOnly ==
    (source.family = "plus" /\ pc = "done") =>
        IF OperandTypes[1] = OperandTypes[2] /\ OperandTypes[1] \in {"Number", "String", "List"}
        THEN /\ result = "true"
             /\ globals["c"].t = OperandTypes[1]
             /\ Wrote239
        ELSE /\ result = "false"
             /\ ip = 3
             /\ "c" \notin DOMAIN globals
             /\ HasDiagnostic(output)
             /\ ~Wrote239

\* interpret has returned false for a Number plus a String.
PlusRejectedNumberAndString ==
    /\ source.family = "plus"
    /\ result = "false"
    /\ OperandTypes = <<"Number", "String">>
    /\ ip = 3

\* In a program of ArityPrograms: the parameters of f and the arguments of
\* the call.
ArityOfFunction == Len(source.ast[2].expression.value.parameters)
ArityOfCall == Len(source.ast[3].expression.value.arguments)
Wrote(chars) == \E i \in DOMAIN output : output[i] = [k |-> "text", chars |-> chars]
Entered == \E i \in DOMAIN trace : trace[i].ev = "enter"

\* C11: a call of a user-defined function with a number of arguments that
\* differs from its number of parameters is an error: interpret returns
\* false, the body is not executed (no call is entered, 7 is not written,
\* x keeps its value), no parameter is bound, and no later statement runs
\* (r is not bound, 9 is not written).  With equal numbers the call runs.
ArityMismatchIsError ==
    (source.family = "arity" /\ pc = "done") =>
        IF ArityOfFunction # ArityOfCall
        THEN /\ result = "false"
             /\ HasDiagnostic(output)
             /\ ~Entered
             /\ ~Wrote(<<"7">>)
             /\ globals["x"] = NumberV(1)
             /\ DOMAIN globals \cap {"p", "q", "r"} = {}
             /\ ip = 3
             /\ ~Wrote(<<"9">>)
        ELSE /\ result = "true"
             /\ Entered
             /\ Wrote(<<"7">>)
             /\ Wrote(<<"9">>)

\* interpret has returned false for a call of a one-parameter function with
\* two arguments.
TwoArgumentsForOneParameter ==
    /\ source.family = "arity"
    /\ result = "false"
    /\ ArityOfFunction = 1
    /\ ArityOfCall = 2
    /\ ip = 3

\* In a program of CapturePrograms: the free name the returned function
\* reads, whether the program binds it at top level after mk has returned,
\* and whether the function is called from h with h's parameter named so.
FreeName == source.ast[2].expression.value.body.statements[2].value.body.statements[1].value.name
BoundAfterwards == source.ast[4].expression.name = FreeName
CalledFromH == source.ast[6].expression.arguments[1].callee.name = "h"
BoundByCaller == CalledFromH /\ source.ast[5].expression.value.parameters = <<FreeName>>

\* C12: functions capture no environment.  The function mk returns reads
\* its free name in the environment of the call: the parameter of the
\* calling function h if it has that name (4), else the global binding made
\* after mk returned (9), else the global bound before the function was
\* created (z = 1); and when the name is only a parameter (p = 7) or a local
\* (loc = 3) of mk, which has returned, the read is an undefined-variable
\* error: the creator's 7 and 3 are never seen.
FunctionsCaptureNothing ==
    (source.family = "capture" /\ pc = "done") =>
        /\ ~Wrote(<<"7">>) /\ ~Wrote(<<"3">>)
        /\ IF BoundByCaller THEN result = "true" /\ Text(output) = <<"4">>
           ELSE IF BoundAfterwards THEN result = "true" /\ Text(output) = <<"9">>
           ELSE IF FreeName = "z" THEN result = "true" /\ Text(output) = <<"1">>
           ELSE /\ result = "false"
                /\ thrown.what = "Undefined variable: " \o FreeName
                /\ ip = 6

\* The function created in mk(7) has been called after mk returned, and its
\* read of mk's parameter p was an undefined-variable error.
CreatorsParameterUndefined ==
    /\ source.family = "capture"
    /\ result = "false"
    /\ FreeName = "p"
    /\ ~BoundAfterwards /\ ~CalledFromH
    /\ \E i \in Exits({"return"}) : trace[i].inner["p"] = NumberV(7)
    /\ thrown.what = "Undefined variable: p"

\* In a program of SlicePrograms: the elements of x (the characters of a
\* string, the values of a list) and the three bounds as written.
SliceTarget == source.ast[1].expression.value
SliceNode == source.ast[2].expression.value
ElementsOfTarget ==
    IF SliceTarget.kind = "StringLiteral" THEN SliceTarget.value
    ELSE [i \in DOMAIN SliceTarget.elements |-> LiteralValue(SliceTarget.elements[i])]
\* The integer that the literal node, or the literal under a unary minus,
\* denotes.
Denoted(node) == IF node.kind = "UnaryOp" THEN 0 - node.operand.value ELSE node.value
Written(node, default) == IF node.kind = "null" THEN default ELSE Denoted(node)

\* The bound b offset by the length n when negative, then clamped to [0, n].
Normalised(b, n) ==
    LET offset == IF b < 0 THEN b + n ELSE b
    IN IF offset < 0 THEN 0 ELSE IF offset > n THEN n ELSE offset

\* The positions (from 0) from start towards end in increments of step.
Traversed(start, end, step, n) ==
    LET Reached(k) == LET i == start + k * step
                      IN /\ i \in 0..(n - 1)
                         /\ IF step > 0 THEN i < end ELSE i > end
        count == Cardinality({k \in 0..n : Reached(k)})
    IN [k \in 1..count |-> start + (k - 1) * step]

\* The elements of x the slice is to hold.
ElementsOfSlice ==
    LET n == Len(ElementsOfTarget)
        positions == Traversed(Normalised(Written(SliceNode.start_slice, 0), n),
                               Normalised(Written(SliceNode.end_slice, n), n),
                               Written(SliceNode.step_slice, 1), n)
    IN [k \in DOMAIN positions |-> ElementsOfTarget[positions[k] + 1]]

\* C13: y = x[start:end:step] succeeds; for a string x, y is the string of
\* the characters at the positions traversed from start (default 0) towards
\* end (default the length) in increments of step (default 1), negative
\* bounds offset by the length and both clamped; for a list x, y is a list
\* of the elements at those positions, and not the list x is bound to.
SliceHoldsTraversedElements ==
    (source.family = "slice" /\ pc = "done") =>
        /\ result = "true"
        /\ "y" \in DOMAIN globals
        /\ IF SliceTarget.kind = "StringLiteral"
           THEN globals["y"] = StringV(ElementsOfSlice)
           ELSE /\ globals["y"].t = "List"
                /\ globals["y"].ref # globals["x"].ref
                /\ heap[globals["y"].ref] = ElementsOfSlice

\* In a program of IndexPrograms: the target and the index as written, and
\* the elements of a target that is a string (its characters, as strings of
\* length one) or a list.
IndexTarget == source.ast[1].expression.value
IndexWritten == source.ast[2].expression.value.index
Indexable == IndexTarget.kind \in {"StringLiteral", "ListLiteral"}
IntegralIndex ==
    LET literal == IF IndexWritten.kind = "UnaryOp" THEN IndexWritten.operand
                   ELSE IndexWritten
    IN literal.kind = "NumberLiteral" /\ "value" \in DOMAIN literal
ElementsOfIndexed ==
    IF IndexTarget.kind = "StringLiteral"
    THEN [i \in DOMAIN IndexTarget.value |-> StringV(<<IndexTarget.value[i]>>)]
    ELSE [i \in DOMAIN IndexTarget.elements |-> LiteralValue(IndexTarget.elements[i])]

\* C14: for x a string or list of length n and i integral, y = x[i] binds y
\* to the element at position i when 0 <= i < n and to the element at
\* position i + n when -n <= i < 0; in every other case (i >= n, i < -n, an
\* index that is not a Number or not integral, an x that is neither a string
\* nor a list) interpret returns false and y is not bound.
IndexYieldsElementOrError ==
    (source.family = "index" /\ pc = "done") =>
        LET n == Len(ElementsOfIndexed)
            i == Denoted(IndexWritten)
        IN IF Indexable /\ IntegralIndex /\ -n <= i /\ i < n
           THEN /\ result = "true"
                /\ globals["y"] = ElementsOfIndexed[(IF i < 0 THEN i + n ELSE i) + 1]
           ELSE /\ result = "false"
                /\ HasDiagnostic(output)
                /\ "y" \notin DOMAIN globals
                /\ ip = 2

\* x[-1] has yielded the last element, 30, of a list of three.
LastElementByMinusOne ==
    /\ source.family = "index"
    /\ result = "true"
    /\ IndexTarget.kind = "ListLiteral"
    /\ IndexWritten = Integer(-1)
    /\ globals["y"] = NumberV(30)

\* C15: read() returns an empty string and stacktrace() an empty list: the
\* program s = read(); print(s) succeeds and writes nothing, and
\* print(stacktrace()) succeeds and writes [].
SystemFunctionsReturnEmpty ==
    (source.family = "system" /\ pc = "done") =>
        /\ result = "true"
        /\ Text(output) = source.expect
        /\ ~HasDiagnostic(output)

\* The parser observes the newline after a comma: an EndOfLine token follows
\* a Comma token in what tokenize returned.
EndOfLineAfterComma ==
    \E i \in 1..(Len(tokens) - 1) :
        tokens[i].type = "Comma" /\ tokens[i + 1].type = "EndOfLine"

\* C16: a newline that follows a comma inside a list literal or an argument
\* list is not observed by the parser, no EndOfLine token reaches it: a list
\* literal whose elements are written one per line, such as the list of
\* function definitions of FunnySyntaxTest, parses, and each element is
\* callable by index (the program succeeds and writes what is expected).
NewlineAfterCommaNotObserved ==
    (source.family = "lines" /\ pc # "lex") =>
        /\ ~EndOfLineAfterComma
        /\ pc # "parse" => Parses
        /\ pc = "done" => result = "true" /\ Text(output) = source.expect

\* In a program of ListArgumentPrograms: the call of the in-place built-in, its
\* first argument, and whether that argument evaluates to a list in the final
\* state.
InPlaceCall == source.ast[5].expression.value
FirstArgument == InPlaceCall.arguments[1]
EvaluatesToList(node) ==
    LET r == evaluate(node, Top) IN r.sig = "ok" /\ r.val.t = "List"
ListsKept ==
    /\ heap[globals["a"].ref] = <<NumberV(3), NumberV(1), NumberV(2)>>
    /\ heap[heap[globals["w"].ref][1].ref] = <<NumberV(3), NumberV(1), NumberV(2)>>

\* C17: push, pop, insert, remove and sort fail whenever their first argument
\* is not a bare identifier bound to a list: for a list literal, the index
\* expression w[0] and the call g(), which all evaluate to a list, and for an
\* identifier bound to a number or unbound, interpret returns false with the
\* message of the built-in, the lists are as they were, r is not bound and the
\* print that follows is not executed.  With the identifier a the call runs.
InPlaceBuiltinsNeedListVariable ==
    (source.family = "listArgument" /\ pc = "done") =>
        IF FirstArgument = Var("a")
        THEN /\ result = "true"
             /\ Mutated(InPlaceCall.callee.name,
                        <<NumberV(3), NumberV(1), NumberV(2)>>, heap[globals["a"].ref])
             /\ Wrote(<<"9">>)
        ELSE /\ result = "false"
             /\ HasDiagnostic(output)
             /\ thrown.type = "runtime_error"
             /\ thrown.what =
                  IF FirstArgument.kind # "Identifier"
                  THEN InPlaceCall.callee.name \o "() currently only supports "
                       \o ListArgumentUse(InPlaceCall.callee.name)
                       \o " stored in variables."
                  ELSE "Variable '" \o FirstArgument.name
                       \o "' is not a list or not found for "
                       \o InPlaceCall.callee.name \o "()."
             /\ ListsKept
             /\ "r" \notin DOMAIN globals
             /\ ip = 5
             /\ ~Wrote(<<"9">>)

\* interpret has returned false for sort(g()), where g() evaluates to a list.
SortOfCallResultRejected ==
    /\ source.family = "listArgument"
    /\ result = "false"
    /\ InPlaceCall.callee.name = "sort"
    /\ FirstArgument.kind = "FunctionCall"
    /\ EvaluatesToList(FirstArgument)
    /\ ip = 5

\* In a program of CompoundPrograms: the compound assignment, and the binary
\* operation on the same two operands, evaluated from an empty environment.
CompoundAssignment == source.ast[2].expression.value
BinaryOperation ==
    evaluate(BinaryOp(SubSeq(CompoundAssignment.op, 1, Len(CompoundAssignment.op) - 1),
                      source.ast[1].expression.value, CompoundAssignment.value),
             [Top EXCEPT !.globals = <<>>, !.heap = <<>>, !.output = <<>>, !.trace = <<>>])
\* A value with the elements of the list it refers to.
Content(v, h) == IF v.t = "List" THEN [t |-> "List", elements |-> h[v.ref]] ELSE v

\* C18: for x bound and a value v, r = x op= v (op one of + - * / % ^)
\* rebinds x to, and returns, the value x op v yields on the same operands,
\* and is an error (interpret returns false, x keeps its value, r is not
\* bound) exactly when x op v is one.
CompoundAssignmentIsBinaryOperation ==
    (source.family = "compound" /\ pc = "done") =>
        IF BinaryOperation.sig = "ok"
        THEN /\ result = "true"
             /\ Content(globals["x"], heap)
                  = Content(BinaryOperation.val, BinaryOperation.heap)
             /\ Content(globals["r"], heap)
                  = Content(BinaryOperation.val, BinaryOperation.heap)
        ELSE /\ result = "false"
             /\ LET before == evaluate(source.ast[1].expression.value, Top)
                IN Content(globals["x"], heap) = Content(before.val, before.heap)
             /\ "r" \notin DOMAIN globals

\* In a program of ZeroPrograms: whether r = e is in the body of f, the
\* expression e, and the value of one of its operands in the final state.
InBodyOfF == source.ast[3].expression.value.kind = "FunctionDefinition"
ZeroExpression ==
    IF InBodyOfF THEN source.ast[3].expression.value.body.statements[1].expression.value
    ELSE source.ast[3].expression.value
ValueOf(node) == evaluate(node, Top).val
IsSlice(node) == node.kind = "IndexAccess" /\ "step_slice" \in DOMAIN node

\* The message of the error e raises, "" when it raises none: a zero divisor,
\* a negative argument of sqrt, a zero step.
ZeroError(e) ==
    CASE e.kind = "BinaryOp" /\ ValueOf(e.right) = NumberV(0) ->
           IF e.op = "/" THEN "Division by zero" ELSE "Modulo by zero"
      [] e.kind = "Assignment" /\ ValueOf(e.value) = NumberV(0) ->
           IF e.op = "/=" THEN "Division by zero for '/='" ELSE "Modulo by zero for '%='"
      [] e.kind = "FunctionCall" /\ e.callee.name = "sqrt"
         /\ IsNegative(ValueOf(e.arguments[1])) -> "sqrt() argument cannot be negative"
      [] e.kind = "FunctionCall" /\ e.callee.name = "range"
         /\ ValueOf(e.arguments[3]) = NumberV(0) -> "range() step argument cannot be zero"
      [] IsSlice(e) /\ ValueOf(e.step_slice) = NumberV(0) -> "Slice step cannot be zero."
      [] OTHER -> ""

\* C19: a division or modulo by zero (binary, /= and %=), sqrt of a negative
\* number, range with step 0 and a slice with step 0 each make interpret
\* return false with the message of the error; r is not bound, x keeps its
\* value and no statement after the failing one executes (neither print(8) in
\* the body of f nor print(9)).  With another divisor, argument or step the
\* program runs to its end.
ZeroDivisorOrStepIsError ==
    (source.family = "zero" /\ pc = "done") =>
        IF ZeroError(ZeroExpression) # ""
        THEN /\ result = "false"
             /\ HasDiagnostic(output)
             /\ thrown = [type |-> "runtime_error", what |-> ZeroError(ZeroExpression),
                          val |-> NilV]
             /\ "r" \notin DOMAIN globals
             /\ globals["x"] = NumberV(6)
             /\ ip = IF InBodyOfF THEN 4 ELSE 3
             /\ ~Wrote(<<"8">>)
             /\ ~Wrote(<<"9">>)
        ELSE /\ result = "true"
             /\ Text(output) = IF InBodyOfF THEN <<"8", "9">> ELSE <<"9">>

\* interpret has returned false for x %= x - x in the body of f.
ModuloAssignmentByComputedZero ==
    /\ source.family = "zero"
    /\ result = "false"
    /\ InBodyOfF
    /\ ZeroExpression.kind = "Assignment"
    /\ ZeroExpression.op = "%="
    /\ ZeroExpression.value.kind = "BinaryOp"
    /\ thrown.what = "Modulo by zero for '%='"

\* In a program of BuiltinCallPrograms: the call, and what the built-in of
\* that name returns and writes for the arguments of BuiltinCalls.
BuiltinCall == source.ast[3].expression.value
BuiltinReturns(name) ==
    CASE name \in {"print", "println", "push", "insert", "sort"} -> NilV
      [] name = "len" -> NumberV(3)
      [] name = "pop" -> NumberV(2)
      [] name = "remove" -> NumberV(3)
      [] name = "sqrt" -> NumberV(2)
      [] name = "range" -> [t |-> "List", elements |-> <<NumberV(0), NumberV(1)>>]
BuiltinWrites(name) ==
    CASE name = "print" -> <<"p">>
      [] name = "println" -> <<"p", "\n">>
      [] OTHER -> <<>>

\* In a program of BuiltinNamePrograms: the name that is read, which is the
\* one the last assignment to y reads or passes to f.
BareName ==
    LET e == source.ast[Len(source.ast) - 1].expression.value
    IN IF e.kind = "Identifier" THEN e.name ELSE e.arguments[1].name

\* C20: a call whose callee is an identifier naming a built-in runs the
\* built-in also after the program has bound that name to a user function or
\* to a number (the function is not entered, 7 is not written, r is what the
\* built-in returns, the list is what it leaves, and the name stays bound to
\* the assigned value); and reading the name of a built-in as a bare
\* expression, bound or not, alone or as an argument, is an error: interpret
\* returns false, y is not bound, f is not entered and the print that follows
\* is not executed.  An ordinary name is read without error once bound.
BuiltinNamesAreReserved ==
    /\ (source.family = "builtinCall" /\ pc = "done") =>
          LET name == BuiltinCall.callee.name
          IN /\ result = "true"
             /\ ~Entered
             /\ Text(output) = BuiltinWrites(name) \o <<"9">>
             /\ Content(globals["r"], heap) = BuiltinReturns(name)
             /\ globals[name] = evaluate(source.ast[2].expression.value, Top).val
             /\ IF name \in {"push", "pop", "insert", "remove", "sort"}
                THEN Mutated(name, <<NumberV(3), NumberV(1), NumberV(2)>>,
                             heap[globals["l"].ref])
                ELSE heap[globals["l"].ref] = <<NumberV(3), NumberV(1), NumberV(2)>>
    /\ (source.family = "builtinName" /\ pc = "done") =>
          IF BareName \in BuiltinNames
          THEN /\ result = "false"
               /\ thrown = [type |-> "runtime_error",
                            what |-> "Built-in function '" \o BareName
                                     \o "' must be called with parentheses ()",
                            val |-> NilV]
               /\ HasDiagnostic(output)
               /\ "y" \notin DOMAIN globals
               /\ ~Entered
               /\ ip = Len(program) - 1
               /\ ~Wrote(<<"9">>)
          ELSE result = "true" <=> Len(program) > 2

\* len("...") has run the built-in although len was bound to a user function
\* of one parameter.
BuiltinRanUnderUserFunction ==
    /\ source.family = "builtinCall"
    /\ result = "true"
    /\ BuiltinCall.callee.name = "len"
    /\ globals["len"].t = "Function"
    /\ Len(globals["len"].parameters) = 1
    /\ globals["r"] = NumberV(3)

\* In a program of SortPrograms: the elements of the list literal, the type
\* of the value each evaluates to, and their values when they are numbers or
\* strings.
SortElements == source.ast[1].expression.value.elements
ElementType(e) ==
    CASE e.kind \in {"NumberLiteral", "UnaryOp"} -> "Number"
      [] e.kind = "StringLiteral" -> "String"
      [] e.kind = "ListLiteral" -> "List"
      [] e.kind = "NilLiteral" -> "Nil"
ElementValue(e) ==
    CASE e.kind = "NumberLiteral" -> NumberV(e.value)
      [] e.kind = "UnaryOp" -> NumberV(0 - e.operand.value)
      [] e.kind = "StringLiteral" -> StringV(e.value)
Sortable(elems) ==
    \/ elems = <<>>
    \/ /\ ElementType(elems[1]) \in {"Number", "String"}
       /\ \A i \in DOMAIN elems : ElementType(elems[i]) = ElementType(elems[1])
Ascending(vec) == \A i, j \in DOMAIN vec : i < j => ~SortLess(vec[j], vec[i])
PermutationOf(vec, other) ==
    /\ Len(vec) = Len(other)
    /\ \A i \in DOMAIN other : Occurrences(vec, other[i]) = Occurrences(other, other[i])

\* C21: sort of a list whose elements are all numbers or all strings, through
\* either of two names of it, leaves the list both names refer to in
\* ascending order with the elements it had, and returns nil; a second sort
\* changes nothing, and a list that was in ascending order keeps its order.
\* The empty list stays empty.  A list with elements of different types, or
\* whose first element is neither a number nor a string, is an error:
\* interpret returns false, r is not bound and nothing is printed.
SortOrdersListInPlace ==
    (source.family = "sort" /\ pc = "done") =>
        IF Sortable(SortElements)
        THEN LET before == [i \in DOMAIN SortElements |-> ElementValue(SortElements[i])]
                 vec == heap[globals["a"].ref]
                 shown == toString(globals["a"], heap)
             IN /\ result = "true"
                /\ globals["b"] = globals["a"]
                /\ Ascending(vec)
                /\ PermutationOf(vec, before)
                /\ Ascending(before) => vec = before
                /\ globals["r"] = NilV /\ globals["q"] = NilV
                /\ [i \in DOMAIN output |-> output[i].chars]
                       = <<shown, shown, <<"n", "i", "l">>, shown>>
        ELSE /\ result = "false"
             /\ "r" \notin DOMAIN globals
             /\ \A i \in DOMAIN output : output[i].k = "text" => output[i].chars = <<"\n">>

\* A list of four numbers out of order, with a repeated one, was sorted through
\* its second name.
SortedThroughAlias ==
    /\ source.family = "sort" /\ pc = "done" /\ result = "true"
    /\ source.ast[3].expression.value.arguments[1].name = "b"
    /\ Len(SortElements) = 4
    /\ heap[globals["a"].ref] = <<NumberV(0 - 1), NumberV(0), NumberV(2), NumberV(2)>>

\* In a program of PositionPrograms: the call, the list as the literal gives
\* it, and the index when the second argument is an integral number.
PositionCall == source.ast[3].expression.value
PositionList ==
    LET elems == source.ast[1].expression.value.elements
    IN [i \in DOMAIN elems |-> ElementValue(elems[i])]
HasIntegralIndex ==
    LET i == PositionCall.arguments[2]
    IN i.kind = "UnaryOp" \/ (i.kind = "NumberLiteral" /\ "value" \in DOMAIN i)
Position ==
    LET i == PositionCall.arguments[2]
    IN IF i.kind = "UnaryOp" THEN 0 - i.operand.value ELSE i.value
\* What the call requires of the list and the index.
PositionAllowed ==
    CASE PositionCall.callee.name = "pop" -> PositionList # <<>>
      [] PositionCall.callee.name = "insert" ->
           HasIntegralIndex /\ Position >= 0 /\ Position <= Len(PositionList)
      [] PositionCall.callee.name = "remove" ->
           HasIntegralIndex /\ Position >= 0 /\ Position < Len(PositionList)
\* vec is other without its element at position p (from 1).
WithoutElementAt(vec, other, p) ==
    /\ Len(vec) = Len(other) - 1
    /\ \A k \in DOMAIN vec : vec[k] = IF k < p THEN other[k] ELSE other[k + 1]

\* C22: insert(a, i, 9) with i integral and 0 <= i <= len(a) puts 9 at index
\* i, the other elements keeping their order, and returns nil; remove(a, i)
\* with i integral and 0 <= i < len(a) takes out and returns the element at
\* index i; pop(a) on a list that is not empty takes out and returns the last
\* element; the length changes by one.  Any other index or an empty list for
\* pop is an error: interpret returns false, r is not bound, nothing is
\* printed and the list is as it was.
PositionCallsChangeOneElement ==
    (source.family = "position" /\ pc = "done") =>
        LET vec == heap[globals["a"].ref]
            fn == PositionCall.callee.name
        IN /\ globals["b"] = globals["a"]
           /\ IF PositionAllowed
              THEN /\ result = "true"
                   /\ CASE fn = "insert" ->
                             /\ vec[Position + 1] = NumberV(9)
                             /\ WithoutElementAt(PositionList, vec, Position + 1)
                             /\ globals["r"] = NilV
                        [] fn = "remove" ->
                             /\ WithoutElementAt(vec, PositionList, Position + 1)
                             /\ globals["r"] = PositionList[Position + 1]
                        [] fn = "pop" ->
                             /\ WithoutElementAt(vec, PositionList, Len(PositionList))
                             /\ globals["r"] = PositionList[Len(PositionList)]
                   /\ [i \in DOMAIN output |-> output[i].chars]
                          = <<toString(globals["a"], heap), Printed(globals["r"], heap),
                              NumberToChars(Len(vec))>>
              ELSE /\ result = "false"
                   /\ "r" \notin DOMAIN globals
                   /\ vec = PositionList
                   /\ \A i \in DOMAIN output :
                          output[i].k = "text" => output[i].chars = <<"\n">>

\* remove(a, 1) took the string out of the middle of a list of three and
\* returned it.
RemovedFromTheMiddle ==
    /\ source.family = "position" /\ pc = "done" /\ result = "true"
    /\ PositionCall.callee.name = "remove"
    /\ globals["r"] = StringV(<<"s">>)
    /\ heap[globals["a"].ref] = <<NumberV(3), NumberV(2)>>

\* In a program of RangePrograms: the arguments, whether all are numbers, and
\* start, stop and step as the call takes them.
RangeCall == source.ast[1].expression.value.arguments
RangeOfNumbers == \A i \in DOMAIN RangeCall : RangeCall[i].kind \in {"NumberLiteral", "UnaryOp"}
RangeArgument(i) == ElementValue(RangeCall[i]).n
RangeStart == IF Len(RangeCall) = 1 THEN 0 ELSE RangeArgument(1)
RangeStop == IF Len(RangeCall) = 1 THEN RangeArgument(1) ELSE RangeArgument(2)
RangeStep == IF Len(RangeCall) = 3 THEN RangeArgument(3) ELSE 1
\* v lies strictly before stop in the direction of step.
BeforeStop(v) == IF RangeStep > 0 THEN v < RangeStop ELSE v > RangeStop

\* C23: range of integers builds a list of its own whose k-th element (from
\* 0) is start + k * step, for exactly the k for which that value lies
\* strictly before stop in the direction of step; with the step left out the
\* list has max(0, stop - start) elements.  An argument that is not a number
\* is an error.
RangeListsValuesBeforeStop ==
    (source.family = "range" /\ pc = "done") =>
        IF RangeOfNumbers
        THEN LET vec == heap[globals["r"].ref]
             IN /\ result = "true"
                /\ \A k \in DOMAIN vec :
                      /\ vec[k] = NumberV(RangeStart + (k - 1) * RangeStep)
                      /\ BeforeStop(vec[k].n)
                /\ ~BeforeStop(RangeStart + Len(vec) * RangeStep)
                /\ Len(RangeCall) < 3 =>
                      Len(vec) = IF RangeStop > RangeStart THEN RangeStop - RangeStart ELSE 0
                /\ globals["q"].ref # globals["r"].ref
                /\ heap[globals["q"].ref] = Append(vec, NumberV(9))
                /\ [i \in DOMAIN output |-> output[i].chars]
                       = <<toString(globals["r"], heap), NumberToChars(Len(vec))>>
        ELSE /\ result = "false"
             /\ "r" \notin DOMAIN globals

\* range(3, -2, -2) gave 3, 1, -1.
RangeCountedDown ==
    /\ source.family = "range" /\ pc = "done" /\ result = "true"
    /\ Len(RangeCall) = 3 /\ RangeStep = 0 - 2
    /\ heap[globals["r"].ref] = <<NumberV(3), NumberV(1), NumberV(0 - 1)>>

\* C24: a compound form is closed by end and the keyword that opened it.
\* Over print(1), a form opened by if, while, for or function whose body is
\* followed by nothing, by end alone or by end and one of the four keywords,
\* and print(3): with end and the opening keyword the program runs (interpret
\* returns true and 1, 2 and 3 are written, 2 last for the function, which
\* is called at the end); with every other closer parse throws a
\* runtime_error, interpret returns false, and no statement is executed:
\* the statement loop is never entered and nothing is written but the
\* diagnostic and its end of line.
ClosersAreRequired ==
    \A word \in CompoundKeywords, closer \in Closers :
        source = ClosedForm(word, closer) =>
            IF closer = <<"end", word>>
            THEN pc = "done" =>
                     /\ result = "true"
                     /\ Text(output) = (IF word = "function" THEN <<"1", "3", "2">>
                                        ELSE <<"1", "2", "3">>)
            ELSE /\ pc # "run"
                 /\ ip = 1
                 /\ program = <<>>
                 /\ Text(output) \in {<<>>, <<"\n">>}
                 /\ pc = "thrown" => (tokens # <<>> /\ thrown.type = "runtime_error")
                 /\ pc = "done" => (result = "false" /\ output # <<>>)

\* A while statement closed by end for has been refused.
WhileClosedAsFor ==
    /\ source = ClosedForm("while", <<"end", "for">>)
    /\ pc = "done"
    /\ result = "false"
    /\ output = Diagnostic(SpecificPrefix,
                           "Expected 'while' after 'end' for while statement. Got: for")

\* What the operand e of LeftOperands or RightOperands is as a condition,
\* and what evaluating it writes.
OperandTruth(e) ==
    CASE e.kind = "NumberLiteral" -> e.value # 0
      [] e.kind = "StringLiteral" -> e.value # <<>>
      [] e.kind = "ListLiteral" -> e.elements # <<>>
      [] e.kind = "NilLiteral" -> FALSE
      [] e.kind = "Assignment" -> e.value.value # 0
      [] e.kind = "FunctionCall" -> e.callee.name = "f" /\ e.arguments[1].value # 0
OperandWrites(e) ==
    IF e.kind = "FunctionCall" /\ e.callee.name = "print"
    THEN NumberToChars(e.arguments[1].value)
    ELSE <<>>
LogicalValue(op, left, right) ==
    IF op = "and" THEN OperandTruth(left) /\ OperandTruth(right)
    ELSE OperandTruth(left) \/ OperandTruth(right)

\* C25: and and or evaluate both operands, the left one first. For
\* r = left op right, whatever the left operand is: the right operand's
\* assignment to x has taken place (x is then its value, also when the left
\* operand assigned x before), its print has written, its call of f has made
\* a one longer; what the left operand writes comes first; and r is the
\* number 1 or 0 that op gives for the truthiness of the two values.
BothOperandsEvaluated ==
    (source.family = "logical" /\ pc = "done") =>
        \A op \in LogicalOperators, left \in LeftOperands, right \in RightOperands :
            source.ast = LogicalProgram(op, left, right) =>
                /\ result = "true"
                /\ Text(output) =
                       OperandWrites(left) \o OperandWrites(right)
                       \o <<IF LogicalValue(op, left, right) THEN "1" ELSE "0">>
                       \o (IF right.kind = "Assignment" THEN NumberToChars(right.value.value)
                           ELSE IF left.kind = "Assignment" THEN <<"1">>
                           ELSE <<"0">>)
                       \o (IF right.kind = "FunctionCall" /\ right.callee.name = "f"
                           THEN <<"1">> ELSE <<"0">>)
                /\ globals["r"] \in {NumberV(0), NumberV(1)}

\* r = 1 or (x = 2) has given 1 and has bound x to 2.
AssignedAfterTrueLeft ==
    /\ source.family = "logical"
    /\ source.ast = LogicalProgram("or", Num(1), Assignment("x", Num(2), "="))
    /\ pc = "done"
    /\ globals["x"] = NumberV(2)
    /\ globals["r"] = NumberV(1)

\* C26: every statement kind can be terminated by a semicolon. For an
\* expression statement, a return, a break, a continue and an if, a while
\* and a for statement closed by end and its keyword, each followed by an end
\* of line, by a semicolon and a space or by a semicolon and an end of line
\* and then by the rest of the program: interpret returns true and writes
\* what it writes when the end of line alone stands there.
SemicolonTerminatesEveryStatement ==
    (source.family = "terminator" /\ pc = "done") =>
        (result = "true" /\ Text(output) = source.expect)

\* C27: a lexeme [A-Za-z_][A-Za-z0-9_]* that is not a reserved word, an
\* underscore in the first place included, is one Identifier token and no
\* lexical error. For name = 1 and print(name): tokenize does not throw, the
\* tokens are the Identifier name, =, 1, an end of line, print, (, the
\* Identifier name, ), an end of line and the end of file, and interpret
\* returns true having written 1.
IdentifierIsOneToken ==
    \A name \in IdentifierNames :
        source = TextSource("identifier", NamedText(name), <<"1">>) =>
            /\ pc # "lex" =>
                   /\ Len(tokens) = 10
                   /\ tokens[1] = Token("Identifier", name)
                   /\ tokens[7] = Token("Identifier", name)
            /\ pc = "done" => (result = "true" /\ Text(output) = <<"1">>)

\* In a program of ArgumentPrograms: the call bound to r, the name its
\* argument assigns and the value assigned.
ArgumentCall == source.ast[5].expression.value
ArgumentAssignment == ArgumentCall.arguments[Len(ArgumentCall.arguments)]
AssignedValue == evaluate(ArgumentAssignment.value, Top).val

\* C28: the globals are saved before the arguments of a call of a user-defined
\* function are evaluated. With name = v as the argument, name being x (bound
\* to 1) or y (unbound): the body sees name bound to v (g prints v, f returns
\* it), and after the call x is 1 again and y is unbound again (printing it
\* is an error and interpret returns false); after a call of the built-in
\* print, push, sqrt or len with the same argument, name stays bound to v.
AssignmentInArgumentIsUndone ==
    (source.family = "argument" /\ pc = "done") =>
        IF ArgumentCall.callee.name \in UserCallees
        THEN /\ globals["x"] = NumberV(1)
             /\ "y" \notin DOMAIN globals
             /\ result = (IF ArgumentAssignment.name = "x" THEN "true" ELSE "false")
             /\ globals["r"] = (IF ArgumentCall.callee.name = "f" THEN AssignedValue ELSE NilV)
             /\ ArgumentCall.callee.name = "g" => Wrote(Printed(AssignedValue, heap))
        ELSE /\ result = "true"
             /\ globals[ArgumentAssignment.name] = AssignedValue
             /\ ArgumentAssignment.name = "y" => globals["x"] = NumberV(1)

\* f(x = 4) has returned 4 and x is 1.
UndoneAfterUserCall ==
    /\ source.family = "argument"
    /\ source.ast = ArgumentProgram("x", Call("f", <<Assignment("x", Num(4), "=")>>))
    /\ pc = "done"
    /\ globals["r"] = NumberV(4)
    /\ globals["x"] = NumberV(1)
    /\ Text(output) = <<"4", "1">>

\* C29: the whole source is tokenized and parsed before a statement is
\* executed. When the statement loop runs on a source given as text, the
\* tokens end with the end of file and the program is what parse makes of
\* all of them. For a text with up to MaxValidLines lines print(1), then a
\* line with a lexical or a syntax error, then print(9) or nothing: the
\* statement loop is never entered, nothing is written but one diagnostic
\* and its end of line (neither 1 nor 9), and interpret returns false.
NothingRunsBeforeTheSourceIsParsed ==
    /\ (GivenAsText /\ pc = "run") =>
           /\ tokens # <<>>
           /\ tokens[Len(tokens)].type = "EndOfFile"
           /\ program = parse(tokens).node
    /\ source.family = "late" =>
           /\ pc # "run"
           /\ ip = 1
           /\ program = <<>>
           /\ trace = <<>>
           /\ Text(output) \in {<<>>, <<"\n">>}
           /\ pc = "done" =>
                  /\ result = "false"
                  /\ output = Diagnostic(SpecificPrefix, thrown.what)

\* Three lines print(1), the line x = and print(9) have been refused.
RefusedAfterValidLines ==
    /\ source = TextSource("late", LateErrorText(MaxValidLines, <<"x", " ", "=">>, TRUE), <<>>)
    /\ pc = "done"
    /\ result = "false"
    /\ Len(tokens) > 12
    /\ Text(output) = <<"\n">>

\* In a program of ConcatenationPrograms: the elements x is bound to first,
\* the expression bound to z, its right operand, and the values of the list
\* the right operand is.
ConcatenatedList == source.ast[1].expression.value.elements
Concatenation == source.ast[3].expression.value
ListBeforeConcatenation ==
    [i \in DOMAIN ConcatenatedList |-> ElementValue(ConcatenatedList[i])]
RightOperand ==
    CASE Concatenation.kind = "BinaryOp" -> Concatenation.right
      [] Concatenation.kind = "Assignment" /\ Concatenation.op = "+=" -> Concatenation.value
      [] Concatenation.kind = "Assignment" /\ Concatenation.op = "=" ->
           Concatenation.value.right
      [] Concatenation.kind = "FunctionCall" -> ListLiteral(<<Concatenation.arguments[2]>>)
RightList ==
    IF RightOperand.kind = "ListLiteral"
    THEN <<ElementValue(RightOperand.elements[1])>>
    ELSE ListBeforeConcatenation

\* C30: + and += on lists build a new list and change no existing one.
\* With y = x before it, once z = x += [v], z = x + [v], z = (x = x + [v]),
\* z = x += x or z = x + y has been executed: the list y refers to has the
\* elements it had, z is a list other than it that holds those elements
\* followed by the right operand's, and x is that new list when the
\* expression assigns to x (x and y then differ) and is still y's list when
\* it does not; a later push(y, 7) shows in y only, or in x as well when
\* they still are one list. After z = push(x, v) x and y are one list that
\* holds v.
ConcatenationBuildsNewList ==
    (source.family = "concatenation" /\ ((pc = "run" /\ ip > 3) \/ pc = "done")) =>
        LET x == globals["x"]
            y == globals["y"]
            z == globals["z"]
            pushed == IF pc = "done" \/ ip > 7 THEN <<NumberV(7)>> ELSE <<>>
        IN /\ pc = "done" => result = "true"
           /\ IF Concatenation.kind = "FunctionCall"
              THEN /\ x = y
                   /\ heap[y.ref] = ListBeforeConcatenation \o RightList \o pushed
              ELSE /\ heap[y.ref] = ListBeforeConcatenation \o pushed
                   /\ z.t = "List"
                   /\ z.ref # y.ref
                   /\ heap[z.ref] = ListBeforeConcatenation \o RightList
                   /\ IF Concatenation.kind = "Assignment" THEN x = z ELSE x = y

\* After x = [1], y = x, z = x += [2] and push(y, 7): x is [1, 2] and y is
\* [1, 7].
ConcatenatedApartFromAlias ==
    /\ source.family = "concatenation"
    /\ source.ast = ConcatenationProgram(<<Num(1)>>,
                                         Assignment("x", ListLiteral(<<Num(2)>>), "+="))
    /\ pc = "done"
    /\ globals["x"].ref # globals["y"].ref
    /\ heap[globals["x"].ref] = <<NumberV(1), NumberV(2)>>
    /\ heap[globals["y"].ref] = <<NumberV(1), NumberV(7)>>

====
